---- MODULE Spec2Model ----
(***************************************************************************)
(* gh-secrets-migrator: the migration orchestrator Migrator.Run, the       *)
(* platform calls it issues through github.Client, and the remote run      *)
(* described by the text GenerateWorkflow renders.                         *)
(*                                                                         *)
(* The repository holds two revisions of Migrator.Run / GenerateWorkflow:  *)
(*   "placeholder"  src/internal/migrator/migrator.go  (bash workflow)     *)
(*   "sealed"       src/unnamed/part_007               (pwsh workflow)     *)
(* The variable variant says which revision a behaviour executes.          *)
(*                                                                         *)
(* A secret name is a sequence of string pieces whose concatenation is the *)
(* name, so that "begins with SECRETS_MIGRATOR_" is a test on the first    *)
(* piece while Go's string comparison is equality of the whole sequence.   *)
(***************************************************************************)
EXTENDS Integers, Sequences, FiniteSets, TLC

\* ------------------------------------------------------------------ bounds
MaxRuns == 2          \* invocations of Migrator.Run in one behaviour
MaxHead == 2          \* commits the default branch can reach
MaxPages == 3         \* pages the platform splits a list of secrets into

\* --------------------------------------------------------------- constants
KeyLen == 32          \* length CreateRepoSecret requires of a public key

ReservedPrefix == "SECRETS_MIGRATOR_"
GithubToken == <<"github_token">>
MigratorPAT == <<"SECRETS_MIGRATOR_", "PAT">>
LegacyTargetPAT == <<"SECRETS_MIGRATOR_", "TARGET_PAT">>
ApiKey == <<"API_KEY">>
DbUrl == <<"DB_URL">>

Placeholder == "REPLACE_ME_LATER"
Absent == "absent"

Variants == {"placeholder", "sealed"}
Sides == {"source", "target"}

UserNames == {ApiKey, DbUrl}
\* names a secret of the target repository can be stored under
TargetNames == {ApiKey, DbUrl, LegacyTargetPAT, MigratorPAT, GithubToken}
SourceNames == {ApiKey, DbUrl, MigratorPAT, LegacyTargetPAT}
\* The source repositories the model starts from: at most two secrets
\* other than SECRETS_MIGRATOR_PAT.
SourceStates ==
  {S \in SUBSET SourceNames : DbUrl \in S => (ApiKey \in S /\ LegacyTargetPAT \notin S)}
\* order in which the platform lists repository secrets (by name)
SecretOrder == <<ApiKey, DbUrl, MigratorPAT, LegacyTargetPAT>>

\* Run's arguments for the generator.
TargetOrg == "target-org"
TargetRepo == "target-repo"
BranchName == "migrate-secrets"

\* The configuration of a run that was not started from a command line.
DefaultConfig ==
  [SourceOrg |-> "source-org", SourceRepo |-> "source-repo",
   TargetOrg |-> TargetOrg, TargetRepo |-> TargetRepo,
   SourcePAT |-> "source-pat", TargetPAT |-> "target-pat", Verbose |-> TRUE]

\* No command line.
NoCli ==
  [rev |-> "", set |-> {}, empty |-> {}, load |-> FALSE, token |-> "", verbose |-> TRUE]

\* The Config no runMigration has filled in yet.
NoConfig ==
  [SourceOrg |-> "", SourceRepo |-> "", TargetOrg |-> "", TargetRepo |-> "",
   SourcePAT |-> "", TargetPAT |-> "", Verbose |-> FALSE]

\* The content of a workflow file that is not there.
NoFile ==
  [trigger |-> "", steps |-> <<>>, cleanupRef |-> <<>>, targetOrg |-> "", targetRepo |-> "",
   tokenEnv |-> [name |-> "", value |-> ""], names |-> {}]

\* No client store operation under way.
NoStore == [rev |-> "", op |-> "", side |-> "", name |-> <<>>, len |-> 0]

\* The nil error.
NoError == <<>>

\* No ListRepoSecrets under way.
NoListing ==
  [pages |-> <<>>,        \* the pages the platform serves, in order
   Page |-> 0,            \* opts.Page
   PerPage |-> 0,         \* opts.PerPage
   requested |-> <<>>,    \* opts.Page of each request made, in order
   secretNames |-> <<>>,  \* the local slice
   out |-> <<>>,          \* the slice returned, empty for nil
   returned |-> FALSE]

NoBranch == [base |-> 0, hasFile |-> FALSE, file |-> NoFile]

\* A remote run that has not been triggered.
NoRemote ==
  [wpc |-> "none",            \* position in the job
   ctx |-> <<>>,              \* names in the run's secrets context
   i |-> 1,                   \* position in ctx of the next name to forward
   token |-> FALSE,           \* secrets.SECRETS_MIGRATOR_PAT was non-empty
   outcome |-> "none",        \* "success" or "failure" once the job ended
   fwdFailed |-> FALSE,       \* a write of a secret to the target failed
   credDelAttempted |-> FALSE,
   credGone |-> FALSE,        \* this run deleted SECRETS_MIGRATOR_PAT
   brDelAttempted |-> FALSE]

\* --------------------------------------------------------------- variables
VARIABLES
  variant,          \* revision of Migrator.Run / GenerateWorkflow in use
  credOK,           \* credOK[s]: the PAT of side s is accepted by the platform
  srcSecrets,       \* names of the secrets stored on the source repository
  srcPatKey,        \* repository whose key sealed the stored SECRETS_MIGRATOR_PAT
  tgtSecrets,       \* tgtSecrets[n]: value stored on the target under n, or Absent
  head,             \* head commit of the source default branch
  branch,           \* the ref heads/migrate-secrets, or NoBranch
  pc,               \* position of the running Migrator.Run
  run,              \* number of Run invocations started
  secretsToMigrate, \* Run's local list
  idx,              \* index of the placeholder loop
  masterCommitSha,  \* Run's local sha
  calls,            \* platform calls issued by the current run, in order
  result,           \* what the current run returned: "none", "ok" (nil) or "err"
  prev,             \* calls and result of the run before the current one
  remote,           \* remote[r]: the remote run triggered by run r's commit
  srcEnvs,          \* names of the environments of the source repository
  tgtEnvs,          \* names of the environments of the target repository
  environments_to_migrate, \* the list list_environments returned to run()
  envIdx,           \* position of the environment loop
  store,            \* arguments of the client operation under way
  err,              \* the error value the client operation returned, or NoError
  listing,          \* the pages, request options and result of ListRepoSecrets
  cli,              \* the command line and environment of the invocation
  config,           \* the migrator.Config runMigration built
  logs              \* calls made on the Logger by the current invocation, in order

platformVars == <<credOK, srcSecrets, srcPatKey, tgtSecrets, head, branch>>
runVars == <<pc, run, secretsToMigrate, idx, masterCommitSha, calls, result, prev>>
envVars == <<srcEnvs, tgtEnvs, environments_to_migrate, envIdx>>
cliVars == <<cli, config, logs>>
clientVars == <<store, err, listing>>
vars == <<variant, platformVars, runVars, remote, envVars, clientVars, cliVars>>

Runs == 1..MaxRuns

\* ------------------------------------------------------------ pure helpers
HasReservedPrefix(name) == name[1] = ReservedPrefix

IsReserved(name) == HasReservedPrefix(name) \/ name = GithubToken

\* The names the platform returns for a set of stored secrets.
ListedNames(stored) == SelectSeq(SecretOrder, LAMBDA n : n \in stored)

\* A selection that keeps every listed name.
FilterSecretsNone(secretNames) == secretNames

\* migrator.go: the loop that builds secretsToMigrate.
FilterSecrets(secretNames) ==
  SelectSeq(secretNames, LAMBDA name : name # GithubToken /\ name # MigratorPAT)

Range(s) == {s[i] : i \in 1..Len(s)}

\* One platform call as Run issued it: ok is the result the client returned,
\* fault says the failure came from the credential or the transport rather
\* than from the state of the repository.
Call(op, side, name, value, ok, fault) ==
  [op |-> op, side |-> side, name |-> name, value |-> value, ok |-> ok, fault |-> fault]

NoName == <<>>
NoValue == ""
TargetPATValue == "target-pat"

\* The name Repositories.Get reports as the default branch.
DefaultBranch == "main"

\* A ref that is always the default branch's.
HeadsRefDefault(branchName) == <<"heads/", DefaultBranch>>

\* client.go: fmt.Sprintf("heads/%s", branch) of GetCommitSha and DeleteBranch.
HeadsRef(branchName) == <<"heads/", branchName>>

\* client.go: fmt.Sprintf("refs/heads/%s", branchName) of CreateBranch.
RefsHeadsRef(branchName) == <<"refs/heads/", branchName>>

\* The expression both templates bind the job's token to.
MigratorPATExpr == "${{ secrets.SECRETS_MIGRATOR_PAT }}"

\* The expression the pwsh cleanup puts in its URL.
GithubRefExpr == <<"${{ github.ref }}">>

MutatingOps == {"DeleteRef", "CreateRef", "CreateOrUpdateRepoSecret", "CreateFile"}

\* A platform call succeeds when its credential is accepted and no transport
\* fault hits it.
CallOK(side, fault) == credOK[side] /\ ~fault

Log(c) == calls' = Append(calls, c)
LogSeq(cs) == calls' = calls \o cs

\* A run that never happened.
NoRun == [calls |-> <<>>, result |-> "none"]

\* An error handler that stays at the failed step and issues it again.
RetryOnError == pc' = pc

\* Every `if err != nil { return fmt.Errorf(...) }` of Run.
Fail == pc' = "failed"

\* ------------------------------------------------------------------ logger
\* A call on the Logger: the level tag, the format, the arguments handed to
\* fmt.Printf, and whether the call printed.
Line(level, format, args, out) ==
  [level |-> level, format |-> format, args |-> args, out |-> out]

\* Arguments of a format: a string (%s, %v), a number (%d), or the base64
\* text of a sealed box or of a public key, which is left opaque.
ArgS(text) == [kind |-> "text", text |-> text, n |-> 0]
ArgD(n) == [kind |-> "number", text |-> "", n |-> n]
ArgSealed == [kind |-> "ciphertext", text |-> "", n |-> 0]
ArgKey == [kind |-> "key", text |-> "", n |-> 0]

\* A secret name as the string the engine prints.
NameText(name) == IF Len(name) = 1 THEN name[1] ELSE name[1] \o name[2]

\* logger.New
New(verbose) == [Verbose |-> verbose]

Info(l, message) == Line("INFO", message, <<>>, TRUE)
Infof(l, format, args) == Line("INFO", format, args, TRUE)
Success(l, message) == Line("SUCCESS", message, <<>>, TRUE)
Successf(l, format, args) == Line("SUCCESS", format, args, TRUE)

\* A Debug that prints whatever the logger's Verbose is.
DebugAlways(l, message) == Line("DEBUG", message, <<>>, TRUE)

Debug(l, message) == Line("DEBUG", message, <<>>, l.Verbose)
Debugf(l, format, args) == Line("DEBUG", format, args, l.Verbose)

\* The logger runMigration created and handed to the Migrator and to both
\* clients.
log == New(config.Verbose)

Emit(lines) == logs' = logs \o lines

\* A CreateRepoSecret that prints the value it is about to seal.
CreateRepoSecretLinesPlain(secretName, keyLen, secretValue) ==
  <<Debugf(log, "Creating secret %s: key length=%d, key_id=%s, secret_value=%s",
           <<ArgS(NameText(secretName)), ArgD(keyLen), ArgS("key-id"),
             ArgS(secretValue)>>),
    Debugf(log, "Public key (base64): %s", <<ArgKey>>),
    Debugf(log, "Encrypted secret (base64): %s (length=%d bytes)",
           <<ArgSealed, ArgD(0)>>)>>

\* client.go 92, 93, 104: the three Debugf calls of CreateRepoSecret.  The
\* length of the sealed box is part of the opaque ciphertext fields.
CreateRepoSecretLines(secretName, keyLen, secretValue) ==
  <<Debugf(log, "Creating secret %s: key length=%d, key_id=%s, secret_value_length=%d",
           <<ArgS(NameText(secretName)), ArgD(keyLen), ArgS("key-id"),
             ArgD(Len(secretValue))>>),
    Debugf(log, "Public key (base64): %s", <<ArgKey>>),
    Debugf(log, "Encrypted secret (base64): %s (length=%d bytes)",
           <<ArgSealed, ArgD(0)>>)>>

\* Run 47-51: the lines printed before the first platform call.
RunBanner(c) ==
  <<Info(New(c.Verbose), "Migrating Secrets..."),
    Infof(New(c.Verbose), "SOURCE ORG: %s", <<ArgS(c.SourceOrg)>>),
    Infof(New(c.Verbose), "SOURCE REPO: %s", <<ArgS(c.SourceRepo)>>),
    Infof(New(c.Verbose), "TARGET ORG: %s", <<ArgS(c.TargetOrg)>>),
    Infof(New(c.Verbose), "TARGET REPO: %s", <<ArgS(c.TargetRepo)>>)>>

\* The text GenerateWorkflow renders, by its structure: the push trigger,
\* the steps in order (name, shell, whether the step has `if: always()`, the
\* commands of its script), the ref in the URL of the cleanup's branch
\* deletion, the target coordinates, the environment variable that carries
\* the job's token with the text it is bound to, and the secret names
\* that occur in the text.  The only arguments are the target coordinates
\* and the branch name; the text is one fmt.Sprintf of a fixed template.
GenerateWorkflowBash(targetOrg, targetRepo, branchName) ==
  [trigger |-> branchName,
   steps |-> <<[name |-> "Populate Secrets", shell |-> "bash", always |-> FALSE,
                script |-> <<"forward each secret of the context",
                             "delete SECRETS_MIGRATOR_PAT",
                             "delete branch">>]>>,
   cleanupRef |-> RefsHeadsRef(branchName),
   targetOrg |-> targetOrg,
   targetRepo |-> targetRepo,
   tokenEnv |-> [name |-> "GH_TOKEN", value |-> MigratorPATExpr],
   names |-> {GithubToken, MigratorPAT}]

GenerateWorkflowPwsh(targetOrg, targetRepo, branchName) ==
  [trigger |-> branchName,
   steps |-> <<[name |-> "Install Crypto Package", shell |-> "pwsh", always |-> FALSE,
                script |-> <<"install Sodium.Core">>],
               [name |-> "Migrate Secrets", shell |-> "pwsh", always |-> FALSE,
                script |-> <<"get target public key",
                             "forward each secret of the context",
                             "delete branch",
                             "delete SECRETS_MIGRATOR_PAT">>]>>,
   cleanupRef |-> GithubRefExpr,
   targetOrg |-> targetOrg,
   targetRepo |-> targetRepo,
   tokenEnv |-> [name |-> "TARGET_PAT", value |-> MigratorPATExpr],
   names |-> {GithubToken, MigratorPAT}]

\* A generator that writes the target credential into the text.
GenerateWorkflowInline(targetOrg, targetRepo, branchName) ==
  [GenerateWorkflowBash(targetOrg, targetRepo, branchName)
     EXCEPT !.tokenEnv.value = config.TargetPAT]

GenerateWorkflow(targetOrg, targetRepo, branchName) ==
  IF variant = "placeholder"
  THEN GenerateWorkflowBash(targetOrg, targetRepo, branchName)
  ELSE GenerateWorkflowPwsh(targetOrg, targetRepo, branchName)

\* -------------------------------------------------------------------- Init
Init ==
  /\ variant \in Variants
  /\ credOK \in [Sides -> BOOLEAN]
  /\ srcSecrets \in SourceStates
  /\ srcPatKey = IF MigratorPAT \in srcSecrets THEN "source" ELSE "none"
  /\ tgtSecrets = [n \in TargetNames |-> Absent]
  /\ head = 1
  /\ branch = NoBranch
  /\ pc = "idle"
  /\ run = 0
  /\ secretsToMigrate = <<>>
  /\ idx = 1
  /\ masterCommitSha = 0
  /\ calls = <<>>
  /\ result = "none"
  /\ prev = NoRun
  /\ remote = [r \in Runs |-> NoRemote]
  /\ srcEnvs = {}
  /\ tgtEnvs = {}
  /\ environments_to_migrate = <<>>
  /\ envIdx = 1
  /\ store = NoStore
  /\ err = NoError
  /\ listing = NoListing
  /\ cli = NoCli
  /\ config = DefaultConfig
  /\ logs = <<>>

\* ------------------------------------------------------------ Migrator.Run
\* runMigration constructs the Migrator and calls Run.
StartRun ==
  /\ pc = "idle"
  /\ run < MaxRuns
  /\ run' = run + 1
  /\ pc' = IF variant = "placeholder" THEN "list" ELSE "getkey"
  /\ secretsToMigrate' = <<>>
  /\ idx' = 1
  /\ masterCommitSha' = 0
  /\ prev' = [calls |-> calls, result |-> result]
  /\ calls' = <<>>
  /\ result' = "none"
  /\ logs' = RunBanner(config)
  /\ UNCHANGED <<variant, envVars, clientVars, cli, config, platformVars, remote>>

\* migrator.go 70-78: what Run prints about the selection.
SelectionLines(filtered) ==
  IF Len(filtered) = 0
  THEN <<Info(log, "No secrets to migrate (found only system secrets)")>>
  ELSE <<Infof(log, "Secrets to migrate (%d total):", <<ArgD(Len(filtered))>>)>>
       \o [k \in 1..Len(filtered) |-> Infof(log, "  - %s", <<ArgS(NameText(filtered[k]))>>)]

\* migrator.go 55-78: list, filter, short-circuit on an empty list.
Run_ListRepoSecrets ==
  /\ pc = "list"
  /\ \E fault \in BOOLEAN :
       LET ok == CallOK("source", fault)
           filtered == FilterSecrets(ListedNames(srcSecrets))
       IN /\ Log(Call("ListRepoSecrets", "source", NoName, NoValue, ok, ~CallOK("source", fault)))
          /\ Emit(<<Debug(log, "Fetching list of secrets from source repository...")>>
                  \o (IF ok THEN SelectionLines(filtered) ELSE <<>>))
          /\ IF ~ok THEN Fail /\ UNCHANGED secretsToMigrate
             ELSE /\ secretsToMigrate' = filtered
                  /\ pc' = IF Len(filtered) = 0 THEN "completed" ELSE "defbranch"
  /\ UNCHANGED <<variant, envVars, clientVars, cli, config, platformVars, run, idx, masterCommitSha, result, prev, remote>>

\* part_007 55-60: fetch the TARGET repository's public key.
Run_GetRepoPublicKey ==
  /\ pc = "getkey"
  /\ \E fault \in BOOLEAN :
       LET ok == CallOK("target", fault)
       IN /\ Log(Call("GetRepoPublicKey", "target", NoName, NoValue, ok, ~CallOK("target", fault)))
          /\ Emit(<<Debug(log, "Getting target repository public key...")>>)
          /\ IF ok THEN pc' = "storepat" ELSE Fail
  /\ UNCHANGED <<variant, envVars, clientVars, cli, config, platformVars, run, secretsToMigrate, idx, masterCommitSha, result, prev, remote>>

\* part_007 62-67 with client.go CreateRepoSecret: the length check, then
\* the create-or-update call on the source repository with the key fetched
\* from the target repository.
Run_CreateMigratorPAT ==
  /\ pc = "storepat"
  /\ \E fault \in BOOLEAN :
       LET key == [repo |-> "target", len |-> KeyLen]
           ok == CallOK("source", fault)
           said == <<Debug(log, "Creating SECRETS_MIGRATOR_PAT secret in source repository...")>>
       IN IF key.len # KeyLen
          THEN Fail /\ Emit(said) /\ UNCHANGED <<calls, srcSecrets, srcPatKey>>
          ELSE /\ Log(Call("CreateOrUpdateRepoSecret", "source", MigratorPAT,
                            config.TargetPAT, ok, ~ok))
               /\ Emit(said \o CreateRepoSecretLines(MigratorPAT, key.len, config.TargetPAT))
               /\ IF ok
                  THEN /\ srcSecrets' = srcSecrets \cup {MigratorPAT}
                       /\ srcPatKey' = key.repo
                       /\ pc' = "defbranch"
                  ELSE Fail /\ UNCHANGED <<srcSecrets, srcPatKey>>
  /\ UNCHANGED <<variant, envVars, clientVars, cli, config, credOK, tgtSecrets, head, branch, run,
                 secretsToMigrate, idx, masterCommitSha, result, prev, remote>>

\* Run: GetDefaultBranch (Repositories.Get).
Run_GetDefaultBranch ==
  /\ pc = "defbranch"
  /\ \E fault \in BOOLEAN :
       LET ok == CallOK("source", fault)
       IN /\ Log(Call("GetRepository", "source", NoName, NoValue, ok, ~CallOK("source", fault)))
          /\ Emit(<<Debug(log, "Getting default branch...")>>
                  \o (IF ok THEN <<Debugf(log, "Default branch: %s", <<ArgS(DefaultBranch)>>)>>
                      ELSE <<>>))
          /\ IF ok THEN pc' = "getsha" ELSE Fail
  /\ UNCHANGED <<variant, envVars, clientVars, cli, config, platformVars, run, secretsToMigrate, idx, masterCommitSha, result, prev, remote>>

\* A resolution step that goes on to the branch when the sha could not be
\* resolved.
Run_GetCommitShaLenient ==
  /\ pc = "getsha"
  /\ \E fault \in BOOLEAN :
       LET ok == CallOK("source", fault)
       IN /\ Log(Call("GetRef", "source", HeadsRef(DefaultBranch), NoValue, ok, ~CallOK("source", fault)))
          /\ masterCommitSha' = IF ok THEN head ELSE masterCommitSha
          /\ pc' = IF variant = "placeholder" THEN "delbranch" ELSE "createbranch"
  /\ UNCHANGED <<variant, envVars, clientVars, cliVars, platformVars, run, secretsToMigrate, idx, result, prev, remote>>

\* A resolution step after which Run commits the definition at once.
Run_GetCommitShaThenCommit ==
  /\ pc = "getsha"
  /\ \E fault \in BOOLEAN :
       LET ok == CallOK("source", fault)
       IN /\ Log(Call("GetRef", "source", HeadsRef(DefaultBranch), NoValue, ok, ~CallOK("source", fault)))
          /\ IF ok
             THEN /\ masterCommitSha' = head
                  /\ pc' = "createfile"
             ELSE Fail /\ UNCHANGED masterCommitSha
  /\ UNCHANGED <<variant, envVars, clientVars, cliVars, platformVars, run, secretsToMigrate, idx, result, prev, remote>>

\* Run: GetCommitSha (Git.GetRef heads/<default>).
Run_GetCommitSha ==
  /\ pc = "getsha"
  /\ \E fault \in BOOLEAN :
       LET ok == CallOK("source", fault)
       IN /\ Log(Call("GetRef", "source", HeadsRef(DefaultBranch), NoValue, ok, ~CallOK("source", fault)))
          /\ IF ok
             THEN /\ masterCommitSha' = head
                  /\ pc' = IF variant = "placeholder" THEN "delbranch" ELSE "createbranch"
             ELSE Fail /\ UNCHANGED masterCommitSha
  /\ UNCHANGED <<variant, envVars, clientVars, cliVars, platformVars, run, secretsToMigrate, idx, result, prev, remote>>

\* migrator.go 94-101: what Run prints around the deletion.
DeleteBranchLines(ok) ==
  <<Debugf(log, "Checking if branch %s exists...", <<ArgS(BranchName)>>),
    IF ok THEN Debugf(log, "Deleted existing branch %s", <<ArgS(BranchName)>>)
    ELSE Debugf(log, "Branch %s does not exist or could not be deleted (this is normal): %v",
                <<ArgS(BranchName), ArgS("failed to delete ref")>>)>>

\* A deletion step whose failure ends the run.
Run_DeleteBranchAborts ==
  /\ pc = "delbranch"
  /\ \E fault \in BOOLEAN :
       LET ok == CallOK("source", fault) /\ branch # NoBranch
       IN /\ Log(Call("DeleteRef", "source", HeadsRef(BranchName), NoValue, ok, ~CallOK("source", fault)))
          /\ Emit(DeleteBranchLines(ok))
          /\ branch' = IF ok THEN NoBranch ELSE branch
          /\ IF ok THEN pc' = "createbranch" ELSE Fail
  /\ UNCHANGED <<variant, envVars, clientVars, cli, config, credOK, srcSecrets, srcPatKey, tgtSecrets,
                 head, run, secretsToMigrate, idx, masterCommitSha, result, prev, remote>>

\* A deletion step that issues the call and leaves the ref in place.
Run_DeleteBranchKeepsRef ==
  /\ pc = "delbranch"
  /\ \E fault \in BOOLEAN :
       LET ok == CallOK("source", fault) /\ branch # NoBranch
       IN /\ Log(Call("DeleteRef", "source", HeadsRef(BranchName), NoValue, ok, ~CallOK("source", fault)))
          /\ Emit(DeleteBranchLines(ok))
          /\ pc' = "createbranch"
  /\ UNCHANGED <<variant, envVars, clientVars, cli, config, platformVars, run, secretsToMigrate, idx, masterCommitSha,
                 result, prev, remote>>

\* migrator.go 93-101: best-effort deletion of a stale migration branch; the
\* error is logged at debug level and dropped.
Run_DeleteBranch ==
  /\ pc = "delbranch"
  /\ \E fault \in BOOLEAN :
       LET ok == CallOK("source", fault) /\ branch # NoBranch
       IN /\ Log(Call("DeleteRef", "source", HeadsRef(BranchName), NoValue, ok, ~CallOK("source", fault)))
          /\ Emit(DeleteBranchLines(ok))
          /\ branch' = IF ok THEN NoBranch ELSE branch
          /\ pc' = "createbranch"
  /\ UNCHANGED <<variant, envVars, clientVars, cli, config, credOK, srcSecrets, srcPatKey, tgtSecrets, head, run,
                 secretsToMigrate, idx, masterCommitSha, result, prev, remote>>

\* A creation step whose failure is logged and dropped.
Run_CreateBranchLenient ==
  /\ pc = "createbranch"
  /\ \E fault \in BOOLEAN :
       LET ok == CallOK("source", fault) /\ branch = NoBranch
       IN /\ Log(Call("CreateRef", "source", RefsHeadsRef(BranchName), NoValue, ok, ~CallOK("source", fault)))
          /\ Emit(<<Debugf(log, "Creating branch %s...", <<ArgS(BranchName)>>)>>)
          /\ branch' = IF ok THEN [base |-> masterCommitSha, hasFile |-> FALSE, file |-> NoFile]
                       ELSE branch
          /\ pc' = IF variant = "placeholder" THEN "placeholders" ELSE "createfile"
  /\ UNCHANGED <<variant, envVars, clientVars, cli, config, credOK, srcSecrets, srcPatKey, tgtSecrets,
                 head, run, secretsToMigrate, idx, masterCommitSha, result, prev, remote>>

\* Run: CreateBranch (Git.CreateRef); the platform refuses an existing ref.
Run_CreateBranch ==
  /\ pc = "createbranch"
  /\ \E fault \in BOOLEAN :
       LET ok == CallOK("source", fault) /\ branch = NoBranch
       IN /\ Log(Call("CreateRef", "source", RefsHeadsRef(BranchName), NoValue, ok, ~CallOK("source", fault)))
          /\ Emit(<<Debugf(log, "Creating branch %s...", <<ArgS(BranchName)>>)>>)
          /\ IF ok
             THEN /\ branch' = [base |-> masterCommitSha, hasFile |-> FALSE, file |-> NoFile]
                  /\ pc' = IF variant = "placeholder" THEN "placeholders" ELSE "createfile"
             ELSE Fail /\ UNCHANGED branch
  /\ UNCHANGED <<variant, envVars, clientVars, cli, config, credOK, srcSecrets, srcPatKey, tgtSecrets, head, run,
                 secretsToMigrate, idx, masterCommitSha, result, prev, remote>>

\* A placeholder loop that goes on to the next name when a write fails.
Run_CreatePlaceholderSkips ==
  /\ pc = "placeholders"
  /\ idx <= Len(secretsToMigrate)
  /\ \E fault \in BOOLEAN :
       LET secretName == secretsToMigrate[idx]
           ok == CallOK("target", fault)
       IN /\ LogSeq(<<Call("GetRepoPublicKey", "target", NoName, NoValue, TRUE, FALSE),
                      Call("CreateOrUpdateRepoSecret", "target", secretName,
                           Placeholder, ok, ~ok)>>)
          /\ tgtSecrets' = IF ok THEN [tgtSecrets EXCEPT ![secretName] = Placeholder]
                           ELSE tgtSecrets
          /\ idx' = idx + 1
          /\ pc' = IF idx = Len(secretsToMigrate) THEN "createfile" ELSE "placeholders"
  /\ UNCHANGED <<variant, envVars, clientVars, cliVars, credOK, srcSecrets, srcPatKey, head,
                 branch, run, secretsToMigrate, masterCommitSha, result, prev, remote>>

\* A placeholder loop that writes through the source client.
Run_CreatePlaceholderOnSource ==
  /\ pc = "placeholders"
  /\ idx <= Len(secretsToMigrate)
  /\ \E fault \in BOOLEAN :
       LET secretName == secretsToMigrate[idx]
           ok == CallOK("source", fault)
       IN /\ LogSeq(<<Call("GetRepoPublicKey", "source", NoName, NoValue, TRUE, FALSE),
                      Call("CreateOrUpdateRepoSecret", "source", secretName,
                           Placeholder, ok, ~ok)>>)
          /\ IF ok
             THEN /\ srcSecrets' = srcSecrets \cup {secretName}
                  /\ idx' = idx + 1
                  /\ pc' = IF idx = Len(secretsToMigrate) THEN "createfile"
                           ELSE "placeholders"
             ELSE Fail /\ UNCHANGED <<srcSecrets, idx>>
  /\ UNCHANGED <<variant, envVars, clientVars, cliVars, credOK, tgtSecrets, srcPatKey, head,
                 branch, run, secretsToMigrate, masterCommitSha, result, prev, remote>>

\* migrator.go 110-119: one iteration of the placeholder loop, which calls
\* CreateRepoSecretPlaintext (GetRepoPublicKey of the target, the length
\* check, then CreateOrUpdateRepoSecret on the target).
Run_CreatePlaceholder ==
  /\ pc = "placeholders"
  /\ idx <= Len(secretsToMigrate)
  /\ \E fault1, fault2 \in BOOLEAN :
       LET secretName == secretsToMigrate[idx]
           ok1 == CallOK("target", fault1)
           ok2 == CallOK("target", fault2)
           key == [repo |-> "target", len |-> KeyLen]
           said == (IF idx = 1
                    THEN <<Infof(log, "Creating placeholder secrets in target repository...",
                                 <<>>)>>
                    ELSE <<>>)
                   \o <<Debugf(log, "Creating placeholder for secret: %s",
                                <<ArgS(NameText(secretName))>>)>>
       IN IF ~ok1
          THEN /\ Log(Call("GetRepoPublicKey", "target", NoName, NoValue, FALSE, TRUE))
               /\ Emit(said)
               /\ Fail /\ UNCHANGED <<tgtSecrets, idx>>
          ELSE IF key.len # KeyLen
          THEN /\ Log(Call("GetRepoPublicKey", "target", NoName, NoValue, TRUE, FALSE))
               /\ Emit(said)
               /\ Fail /\ UNCHANGED <<tgtSecrets, idx>>
          ELSE /\ LogSeq(<<Call("GetRepoPublicKey", "target", NoName, NoValue, TRUE, FALSE),
                           Call("CreateOrUpdateRepoSecret", "target", secretName,
                                Placeholder, ok2, ~ok2)>>)
               /\ Emit(said \o CreateRepoSecretLines(secretName, key.len, Placeholder)
                       \o (IF ok2
                           THEN <<Infof(log, "  [ok] Created placeholder for '%s'",
                                        <<ArgS(NameText(secretName))>>)>>
                           ELSE <<>>))
               /\ IF ok2
                  THEN /\ tgtSecrets' = [tgtSecrets EXCEPT ![secretName] = Placeholder]
                       /\ idx' = idx + 1
                       /\ pc' = IF idx = Len(secretsToMigrate) THEN "createfile"
                                ELSE "placeholders"
                  ELSE Fail /\ UNCHANGED <<tgtSecrets, idx>>
  /\ UNCHANGED <<variant, envVars, clientVars, cli, config, credOK, srcSecrets, srcPatKey, head,
                 branch, run, secretsToMigrate, masterCommitSha, result, prev, remote>>

\* migrator.go 123-129: what Run prints around the commit.
CreateFileLines(ok) ==
  <<Debug(log, "Creating workflow file...")>>
  \o (IF ok
      THEN <<Successf(log, "Secrets migration in progress. Check on status at https://github.com/%s/%s/actions",
                      <<ArgS(config.SourceOrg), ArgS(config.SourceRepo)>>)>>
      ELSE <<>>)

\* A commit step that deletes the migration branch again when the commit
\* fails.
Run_CreateFileRollsBack ==
  /\ pc = "createfile"
  /\ \E fault \in BOOLEAN :
       LET ok == CallOK("source", fault) /\ branch # NoBranch /\ ~branch.hasFile
       IN /\ Log(Call("CreateFile", "source", <<BranchName>>, NoValue, ok, ~CallOK("source", fault)))
          /\ Emit(CreateFileLines(ok))
          /\ IF ok
             THEN /\ branch' = [branch EXCEPT !.hasFile = TRUE,
                                               !.file = GenerateWorkflow(config.TargetOrg,
                                                          config.TargetRepo, BranchName)]
                  /\ remote' = [remote EXCEPT ![run] = [NoRemote EXCEPT !.wpc = "queued"]]
                  /\ pc' = "completed"
             ELSE /\ pc' = "failed"
                  /\ branch' = NoBranch
                  /\ UNCHANGED remote
  /\ UNCHANGED <<variant, envVars, clientVars, cli, config, credOK, srcSecrets, srcPatKey,
                 tgtSecrets, head, run, secretsToMigrate, idx, masterCommitSha, result, prev>>

\* A commit step that goes on to ask the platform for the state of the
\* remote run before it returns.
Run_CreateFilePolls ==
  /\ pc = "createfile"
  /\ \E fault \in BOOLEAN :
       LET ok == CallOK("source", fault) /\ branch # NoBranch /\ ~branch.hasFile
       IN /\ LogSeq(<<Call("CreateFile", "source", <<BranchName>>, NoValue, ok, ~CallOK("source", fault))>>
                    \o (IF ok
                        THEN <<Call("ListWorkflowRuns", "source", NoName, NoValue, TRUE, FALSE)>>
                        ELSE <<>>))
          /\ Emit(CreateFileLines(ok))
          /\ IF ok
             THEN /\ branch' = [branch EXCEPT !.hasFile = TRUE,
                                               !.file = GenerateWorkflow(config.TargetOrg,
                                                          config.TargetRepo, BranchName)]
                  /\ remote' = [remote EXCEPT ![run] = [NoRemote EXCEPT !.wpc = "queued"]]
                  /\ pc' = "completed"
             ELSE Fail /\ UNCHANGED <<branch, remote>>
  /\ UNCHANGED <<variant, envVars, clientVars, cli, config, credOK, srcSecrets, srcPatKey,
                 tgtSecrets, head, run, secretsToMigrate, idx, masterCommitSha, result, prev>>

\* Run: CreateFile (Repositories.CreateFile without a blob sha): needs the
\* branch and refuses a path that already exists on it.  The commit is a push
\* to the migration branch, which the rendered definition's trigger matches.
Run_CreateFile ==
  /\ pc = "createfile"
  /\ \E fault \in BOOLEAN :
       LET ok == CallOK("source", fault) /\ branch # NoBranch /\ ~branch.hasFile
       IN /\ Log(Call("CreateFile", "source", <<BranchName>>, NoValue, ok, ~CallOK("source", fault)))
          /\ Emit(CreateFileLines(ok))
          /\ IF ok
             THEN /\ branch' = [branch EXCEPT !.hasFile = TRUE,
                                               !.file = GenerateWorkflow(config.TargetOrg,
                                                          config.TargetRepo, BranchName)]
                  /\ remote' = [remote EXCEPT ![run] = [NoRemote EXCEPT !.wpc = "queued"]]
                  /\ pc' = "completed"
             ELSE Fail /\ UNCHANGED <<branch, remote>>
  /\ UNCHANGED <<variant, envVars, clientVars, cli, config, credOK, srcSecrets, srcPatKey,
                 tgtSecrets, head, run, secretsToMigrate, idx, masterCommitSha, result, prev>>

\* Run returns nil or the wrapped error to runMigration.
Run_Return ==
  /\ pc \in {"completed", "failed"}
  /\ result' = IF pc = "completed" THEN "ok" ELSE "err"
  /\ pc' = "idle"
  /\ UNCHANGED <<variant, envVars, clientVars, cliVars, platformVars, run, secretsToMigrate, idx, masterCommitSha, calls, prev, remote>>

\* A push to the source default branch between two invocations.
PushToDefault ==
  /\ pc = "idle"
  /\ head < MaxHead
  /\ head' = head + 1
  /\ UNCHANGED <<variant, envVars, clientVars, cliVars, credOK, srcSecrets, srcPatKey, tgtSecrets, branch, runVars, remote>>


\* ------------------------------------------- the remote run (GenerateWorkflow)
\* A filter that leaves out the built-in token only.
FilteredOutTokenOnly(name) == name = GithubToken

\* The filter both rendered scripts apply to the names of the secrets context.
FilteredOut(name) == name = GithubToken \/ name = MigratorPAT

\* First position at or after i whose name the loop forwards; Len(ctx) + 1
\* when the loop is over.
NextForward(ctx, i) ==
  LET rest == {j \in i..Len(ctx) : ~FilteredOut(ctx[j])}
  IN IF rest = {} THEN Len(ctx) + 1
     ELSE CHOOSE j \in rest : \A k \in rest : j <= k

\* The job starts: ${{ toJSON(secrets) }} and ${{ secrets.SECRETS_MIGRATOR_PAT }}
\* are evaluated against the source repository's secrets of that moment.
Remote_Start(r) ==
  /\ remote[r].wpc = "queued"
  /\ LET ctx == <<GithubToken>> \o ListedNames(srcSecrets)
         first == NextForward(ctx, 1)
     IN remote' = [remote EXCEPT ![r] =
                    [@ EXCEPT !.ctx = ctx,
                              !.i = first,
                              !.token = MigratorPAT \in srcSecrets,
                              !.wpc = IF variant = "sealed" THEN "install"
                                      ELSE IF first > Len(ctx) THEN "delcred"
                                      ELSE "populate"]]
  /\ UNCHANGED <<variant, envVars, clientVars, cliVars, platformVars, runVars>>

\* A call the job makes with the temporary credential as its token.
RemoteCallOK(r, fault) == remote[r].token /\ ~fault

Forwarded == "value"

\* migrator.go 155-170: one forwarding iteration of the jq | while loop.  A
\* failed `gh secret set` prints a warning and the loop goes on.
Remote_Populate(r) ==
  /\ variant = "placeholder"
  /\ remote[r].wpc = "populate"
  /\ \E fault \in BOOLEAN :
       LET name == remote[r].ctx[remote[r].i]
           after == NextForward(remote[r].ctx, remote[r].i + 1)
           ok == RemoteCallOK(r, fault) /\ credOK["target"]
       IN /\ tgtSecrets' = IF ok THEN [tgtSecrets EXCEPT ![name] = Forwarded]
                           ELSE tgtSecrets
          /\ remote' = [remote EXCEPT ![r] =
                         [@ EXCEPT !.i = after,
                                   !.fwdFailed = @ \/ ~ok,
                                   !.wpc = IF after > Len(remote[r].ctx) THEN "delcred"
                                           ELSE "populate"]]
  /\ UNCHANGED <<variant, envVars, clientVars, cliVars, credOK, srcSecrets, srcPatKey, head, branch, runVars>>

\* migrator.go 172-174: gh secret delete ... || echo "Warning: ...".
Remote_DeleteCredBash(r) ==
  /\ variant = "placeholder"
  /\ remote[r].wpc = "delcred"
  /\ \E fault \in BOOLEAN :
       LET ok == RemoteCallOK(r, fault) /\ MigratorPAT \in srcSecrets
       IN /\ srcSecrets' = IF ok THEN srcSecrets \ {MigratorPAT} ELSE srcSecrets
          /\ srcPatKey' = IF ok THEN "none" ELSE srcPatKey
          /\ remote' = [remote EXCEPT ![r] =
                         [@ EXCEPT !.credDelAttempted = TRUE, !.credGone = ok,
                                   !.wpc = "delbranch"]]
  /\ UNCHANGED <<variant, envVars, clientVars, cliVars, credOK, tgtSecrets, head, branch, runVars>>

\* migrator.go 176-179: gh api ... -X DELETE || echo "Warning: ...", then the
\* final echo; the script ends with exit status 0.
Remote_DeleteBranchBash(r) ==
  /\ variant = "placeholder"
  /\ remote[r].wpc = "delbranch"
  /\ \E fault \in BOOLEAN :
       LET ok == RemoteCallOK(r, fault) /\ branch # NoBranch
       IN /\ branch' = IF ok THEN NoBranch ELSE branch
          /\ remote' = [remote EXCEPT ![r] =
                         [@ EXCEPT !.brDelAttempted = TRUE,
                                   !.wpc = "done", !.outcome = "success"]]
  /\ UNCHANGED <<variant, envVars, clientVars, cliVars, credOK, srcSecrets, srcPatKey, tgtSecrets, head, runVars>>

\* The job ends failed at its current position; later steps and commands
\* are not run.
Abort(r) ==
  remote' = [remote EXCEPT ![r] = [@ EXCEPT !.wpc = "done", !.outcome = "failure"]]

\* part_007 112-115: the step "Install Crypto Package".  The next step has
\* no `if:` and is skipped when this one fails.
Remote_Install(r) ==
  /\ variant = "sealed"
  /\ remote[r].wpc = "install"
  /\ \E fault \in BOOLEAN :
       IF fault THEN Abort(r)
       ELSE remote' = [remote EXCEPT ![r] = [@ EXCEPT !.wpc = "fetchkey"]]
  /\ UNCHANGED <<variant, envVars, clientVars, cliVars, platformVars, runVars>>

\* part_007 121-124: GET the target's public key.  The step runs under
\* shell: pwsh, where a failed Invoke-RestMethod terminates the script.
Remote_FetchKey(r) ==
  /\ variant = "sealed"
  /\ remote[r].wpc = "fetchkey"
  /\ \E fault \in BOOLEAN :
       IF RemoteCallOK(r, fault) /\ credOK["target"]
       THEN remote' = [remote EXCEPT ![r] =
                        [@ EXCEPT !.wpc = IF remote[r].i > Len(remote[r].ctx)
                                          THEN "delbranch" ELSE "migrate"]]
       ELSE Abort(r)
  /\ UNCHANGED <<variant, envVars, clientVars, cliVars, platformVars, runVars>>

\* part_007 126-148: one forwarding iteration of ForEach-Object, the PUT of
\* a secret on the target.
Remote_Migrate(r) ==
  /\ variant = "sealed"
  /\ remote[r].wpc = "migrate"
  /\ \E fault \in BOOLEAN :
       LET name == remote[r].ctx[remote[r].i]
           after == NextForward(remote[r].ctx, remote[r].i + 1)
       IN IF RemoteCallOK(r, fault) /\ credOK["target"]
          THEN /\ tgtSecrets' = [tgtSecrets EXCEPT ![name] = Forwarded]
               /\ remote' = [remote EXCEPT ![r] =
                              [@ EXCEPT !.i = after,
                                        !.wpc = IF after > Len(remote[r].ctx)
                                                THEN "delbranch" ELSE "migrate"]]
          ELSE /\ remote' = [remote EXCEPT ![r] =
                              [@ EXCEPT !.fwdFailed = TRUE, !.wpc = "done",
                                        !.outcome = "failure"]]
               /\ UNCHANGED tgtSecrets
  /\ UNCHANGED <<variant, envVars, clientVars, cliVars, credOK, srcSecrets, srcPatKey, head, branch, runVars>>

\* part_007 150-151: DELETE of ${{ github.ref }} on the source repository.
Remote_DeleteBranchPwsh(r) ==
  /\ variant = "sealed"
  /\ remote[r].wpc = "delbranch"
  /\ \E fault \in BOOLEAN :
       IF RemoteCallOK(r, fault) /\ branch # NoBranch
       THEN /\ branch' = NoBranch
            /\ remote' = [remote EXCEPT ![r] =
                           [@ EXCEPT !.brDelAttempted = TRUE, !.wpc = "delcred"]]
       ELSE /\ UNCHANGED branch
            /\ remote' = [remote EXCEPT ![r] =
                           [@ EXCEPT !.brDelAttempted = TRUE, !.wpc = "done",
                                     !.outcome = "failure"]]
  /\ UNCHANGED <<variant, envVars, clientVars, cliVars, credOK, srcSecrets, srcPatKey, tgtSecrets, head, runVars>>

\* part_007 152: DELETE of the secret SECRETS_MIGRATOR_PAT, the last command.
Remote_DeleteCredPwsh(r) ==
  /\ variant = "sealed"
  /\ remote[r].wpc = "delcred"
  /\ \E fault \in BOOLEAN :
       LET ok == RemoteCallOK(r, fault) /\ MigratorPAT \in srcSecrets
       IN /\ srcSecrets' = IF ok THEN srcSecrets \ {MigratorPAT} ELSE srcSecrets
          /\ srcPatKey' = IF ok THEN "none" ELSE srcPatKey
          /\ remote' = [remote EXCEPT ![r] =
                         [@ EXCEPT !.credDelAttempted = TRUE, !.credGone = ok,
                                   !.wpc = "done",
                                   !.outcome = IF ok THEN "success" ELSE "failure"]]
  /\ UNCHANGED <<variant, envVars, clientVars, cliVars, credOK, tgtSecrets, head, branch, runVars>>

Next ==
  \/ StartRun
  \/ Run_ListRepoSecrets
  \/ Run_GetRepoPublicKey
  \/ Run_CreateMigratorPAT
  \/ Run_GetDefaultBranch
  \/ Run_GetCommitSha
  \/ Run_DeleteBranch
  \/ Run_CreateBranch
  \/ Run_CreatePlaceholder
  \/ Run_CreateFile
  \/ Run_Return
  \/ PushToDefault
  \/ \E r \in Runs : Remote_Start(r)
  \/ \E r \in Runs : Remote_Populate(r)
  \/ \E r \in Runs : Remote_DeleteCredBash(r)
  \/ \E r \in Runs : Remote_DeleteBranchBash(r)
  \/ \E r \in Runs : Remote_Install(r)
  \/ \E r \in Runs : Remote_FetchKey(r)
  \/ \E r \in Runs : Remote_Migrate(r)
  \/ \E r \in Runs : Remote_DeleteBranchPwsh(r)
  \/ \E r \in Runs : Remote_DeleteCredPwsh(r)

Spec == Init /\ [][Next]_vars


\* ------------------------------------------- environment replication
\* The Python revision (part_010): list_environments and create_environment
\* of GitHubClient, and the run() that calls them.
EnvNames == {"prod", "staging"}
EnvOrder == <<"prod", "staging">>

\* What the platform answers to a create call, as the words of str(e); the
\* empty answer is a creation that raised nothing.
Created == <<>>
Conflict409 == <<"409", "Conflict">>
AlreadyExists == <<"422", "Environment", "Already", "Exists">>
Forbidden == <<"403", "Forbidden">>
TimedOut == <<"timed", "out">>

\* str.lower() on the words of the answers.
Lower(word) ==
  CASE word = "Already" -> "already"
    [] word = "Exists" -> "exists"
    [] word = "Conflict" -> "conflict"
    [] word = "Environment" -> "environment"
    [] word = "Forbidden" -> "forbidden"
    [] OTHER -> word

\* `"409" in error_str`
Has409(error_str) == \E k \in 1..Len(error_str) : error_str[k] = "409"

\* `"already exists" in error_str.lower()`
HasAlreadyExists(error_str) ==
  \E k \in 1..(Len(error_str) - 1) :
    Lower(error_str[k]) = "already" /\ Lower(error_str[k + 1]) = "exists"

\* A list_environments that returns what it has when something raised.
list_environments_partial(names, raised) == names

\* part_010 40-49: the names, or the empty list when anything raised.
list_environments(names, raised) == IF raised THEN <<>> ELSE names

\* A create_environment that logs every error and returns.
create_environment_lenient(answer) == "returned"

\* A create_environment that raises on every answer but a creation.
create_environment_strict(answer) ==
  IF answer = Created THEN "returned" ELSE "raised"

\* part_010 64-76: returns on a creation and on an answer that mentions 409
\* or "already exists"; raises RuntimeError on every other answer.
create_environment(answer) ==
  IF answer = Created THEN "returned"
  ELSE IF Has409(answer) \/ HasAlreadyExists(answer) THEN "returned"
  ELSE "raised"

\* The answers the platform can give to a create call for name, made with
\* the target credential.
Answers(name, fault) ==
  IF ~credOK["target"] THEN {Forbidden}
  ELSE IF fault THEN {TimedOut}
  ELSE IF name \in tgtEnvs THEN {Created, Conflict409, AlreadyExists}
  ELSE {Created}

InitEnv ==
  /\ variant = "python"
  /\ credOK \in [Sides -> BOOLEAN]
  /\ srcSecrets = {ApiKey}
  /\ srcPatKey = "none"
  /\ tgtSecrets = [n \in TargetNames |-> Absent]
  /\ head = 1
  /\ branch = NoBranch
  /\ pc = "idle"
  /\ run = 0
  /\ secretsToMigrate = <<>>
  /\ idx = 1
  /\ masterCommitSha = 0
  /\ calls = <<>>
  /\ result = "none"
  /\ prev = NoRun
  /\ remote = [r \in Runs |-> NoRemote]
  /\ srcEnvs \in SUBSET EnvNames
  /\ tgtEnvs \in SUBSET EnvNames
  /\ environments_to_migrate = <<>>
  /\ envIdx = 1
  /\ store = NoStore
  /\ err = NoError
  /\ listing = NoListing
  /\ cli = NoCli
  /\ config = DefaultConfig
  /\ logs = <<>>

Py_Start ==
  /\ pc = "idle"
  /\ run = 0
  /\ run' = 1
  /\ pc' = "listenvs"
  /\ UNCHANGED <<variant, envVars, clientVars, cliVars, platformVars, secretsToMigrate, idx, masterCommitSha,
                 calls, result, prev, remote>>

\* part_010 16-19, run() step 1b: the list call on the source repository.
Py_ListEnvironments ==
  /\ pc = "listenvs"
  /\ \E fault \in BOOLEAN :
       LET raised == ~CallOK("source", fault)
           names == SelectSeq(EnvOrder, LAMBDA e : e \in srcEnvs)
           listed == list_environments(names, raised)
       IN /\ Log(Call("ListEnvironments", "source", NoName, NoValue, ~raised, raised))
          /\ environments_to_migrate' = listed
          /\ envIdx' = 1
          /\ pc' = IF listed = <<>> THEN "storecred" ELSE "createenvs"
  /\ UNCHANGED <<variant, clientVars, cliVars, srcEnvs, tgtEnvs, platformVars, run, secretsToMigrate, idx,
                 masterCommitSha, result, prev, remote>>

\* Preparing: one iteration of the replication loop, a create_environment
\* call on the target; a raised error aborts the run.
Py_CreateEnvironment ==
  /\ pc = "createenvs"
  /\ envIdx <= Len(environments_to_migrate)
  /\ \E fault \in BOOLEAN :
       LET name == environments_to_migrate[envIdx]
       IN \E answer \in Answers(name, fault) :
            LET outcome == create_environment(answer)
            IN /\ Log(Call("CreateEnvironment", "target", <<name>>, answer,
                           outcome = "returned", ~CallOK("target", fault)))
               /\ tgtEnvs' = IF answer = Created THEN tgtEnvs \cup {name} ELSE tgtEnvs
               /\ IF outcome = "returned"
                  THEN /\ envIdx' = envIdx + 1
                       /\ pc' = IF envIdx = Len(environments_to_migrate) THEN "storecred"
                                ELSE "createenvs"
                  ELSE /\ pc' = "failed"
                       /\ UNCHANGED envIdx
  /\ UNCHANGED <<variant, clientVars, cliVars, srcEnvs, environments_to_migrate, credOK, srcSecrets, srcPatKey,
                 tgtSecrets, head, branch, run, secretsToMigrate, idx, masterCommitSha,
                 result, prev, remote>>

\* Preparing: the temporary credential is sealed and stored on the source.
Py_StoreCredential ==
  /\ pc = "storecred"
  /\ \E fault \in BOOLEAN :
       LET ok == CallOK("source", fault)
       IN /\ Log(Call("CreateOrUpdateRepoSecret", "source", MigratorPAT, TargetPATValue, ok, ~ok))
          /\ srcSecrets' = IF ok THEN srcSecrets \cup {MigratorPAT} ELSE srcSecrets
          /\ srcPatKey' = IF ok THEN "target" ELSE srcPatKey
          /\ pc' = IF ok THEN "ensurebranch" ELSE "failed"
  /\ UNCHANGED <<variant, envVars, clientVars, cliVars, credOK, tgtSecrets, head, branch, run, secretsToMigrate,
                 idx, masterCommitSha, result, prev, remote>>

\* Preparing: the migration branch is created at the head of the default
\* branch.
Py_EnsureBranch ==
  /\ pc = "ensurebranch"
  /\ \E fault \in BOOLEAN :
       LET ok == CallOK("source", fault)
       IN /\ Log(Call("CreateRef", "source", NoName, NoValue, ok, ~ok))
          /\ branch' = IF ok THEN [base |-> head, hasFile |-> FALSE, file |-> NoFile]
                       ELSE branch
          /\ pc' = IF ok THEN "publish" ELSE "failed"
  /\ UNCHANGED <<variant, envVars, clientVars, cliVars, credOK, srcSecrets, srcPatKey, tgtSecrets, head, run,
                 secretsToMigrate, idx, masterCommitSha, result, prev, remote>>

\* Publishing: the definition is committed to the migration branch.
Py_Publish ==
  /\ pc = "publish"
  /\ \E fault \in BOOLEAN :
       LET ok == CallOK("source", fault)
       IN /\ Log(Call("CreateFile", "source", NoName, NoValue, ok, ~ok))
          /\ branch' = IF ok THEN [branch EXCEPT !.hasFile = TRUE] ELSE branch
          /\ pc' = IF ok THEN "completed" ELSE "failed"
  /\ UNCHANGED <<variant, envVars, clientVars, cliVars, credOK, srcSecrets, srcPatKey, tgtSecrets, head, run,
                 secretsToMigrate, idx, masterCommitSha, result, prev, remote>>

NextEnv ==
  \/ Py_Start
  \/ Py_ListEnvironments
  \/ Py_CreateEnvironment
  \/ Py_StoreCredential
  \/ Py_EnsureBranch
  \/ Py_Publish

SpecEnv == InitEnv /\ [][NextEnv]_vars

\* ------------------------------------------- the client's store operations
\* CreateRepoSecret and CreateRepoSecretPlaintext called on their own, with
\* a public key of any length: the caller's argument for CreateRepoSecret,
\* the key the platform returns for CreateRepoSecretPlaintext.
KeyLens == {0, 31, 32, 33}
ClientRevs == {"client.go", "part_006"}

\* The calls a caller can make: part_006 has no CreateRepoSecretPlaintext.
StoreOps == {"CreateRepoSecret", "CreateRepoSecretPlaintext"}
StoreCalls ==
  {c \in [rev : ClientRevs, op : StoreOps \cup {"GetDefaultBranch", "DeleteRef"},
          side : Sides, name : UserNames, len : KeyLens] :
     /\ c.op = "CreateRepoSecretPlaintext" => c.rev = "client.go"
     /\ c.op \notin StoreOps => (c.rev = "client.go" /\ c.name = ApiKey /\ c.len = KeyLen)}

\* The coordinates a client operation is called with.
OrgOf(side) == IF side = "source" THEN config.SourceOrg ELSE config.TargetOrg
RepoOf(side) == IF side = "source" THEN config.SourceRepo ELSE config.TargetRepo

\* One layer of an error value: its message, and the request the message
\* names (empty strings when it names none).
Layer(msg, org, repo, resource) ==
  [msg |-> msg, org |-> org, repo |-> repo, resource |-> resource]

\* fmt.Errorf("<msg>: %w", inner): a message around the error it wraps.
Errorf(msg, inner) == <<Layer(msg, "", "", "")>> \o inner

\* The failures the library hands back for a request: an API or transport
\* error, whose text has the method and the URL of the request, or the
\* error of the context, which names no request.
LibraryErrors(side, resource) ==
  {<<Layer("request failed", OrgOf(side), RepoOf(side), resource)>>,
   <<Layer("context canceled", "", "", "")>>}

\* A branch the repository can hold before the operation.
SomeBranch == [base |-> 1, hasFile |-> FALSE, file |-> NoFile]

InitStore ==
  /\ variant = "client"
  /\ store \in StoreCalls
  /\ credOK \in [Sides -> BOOLEAN]
  /\ srcSecrets = {}
  /\ srcPatKey = "none"
  /\ tgtSecrets = [n \in TargetNames |-> Absent]
  /\ head = 1
  /\ branch \in (IF store.op = "DeleteRef" THEN {NoBranch, SomeBranch} ELSE {NoBranch})
  /\ pc = "idle"
  /\ run = 0
  /\ secretsToMigrate = <<>>
  /\ idx = 1
  /\ masterCommitSha = 0
  /\ calls = <<>>
  /\ result = "none"
  /\ prev = NoRun
  /\ remote = [r \in Runs |-> NoRemote]
  /\ srcEnvs = {}
  /\ tgtEnvs = {}
  /\ environments_to_migrate = <<>>
  /\ envIdx = 1
  /\ err = NoError
  /\ listing = NoListing
  /\ cli = NoCli
  /\ config = DefaultConfig
  /\ logs = <<>>

\* A caller enters one of the two operations.
Store_Enter ==
  /\ pc = "idle"
  /\ run = 0
  /\ run' = 1
  /\ pc' = CASE store.op = "CreateRepoSecretPlaintext" -> "plain_getkey"
             [] store.op = "CreateRepoSecret" -> "seal"
             [] OTHER -> "request"
  /\ UNCHANGED <<variant, envVars, clientVars, cliVars, platformVars, secretsToMigrate, idx,
                 masterCommitSha, calls, result, prev, remote>>

\* client.go 128-131, CreateRepoSecretPlaintext: fetch the repository's key.
Client_PlaintextGetKey ==
  /\ pc = "plain_getkey"
  /\ \E fault \in BOOLEAN :
       LET ok == CallOK(store.side, fault)
       IN /\ Log(Call("GetRepoPublicKey", store.side, NoName, NoValue, ok, ~ok))
          /\ pc' = IF ok THEN "seal" ELSE "returned"
          /\ result' = IF ok THEN result ELSE "err"
          /\ IF ok THEN err' = err
             ELSE \E u \in LibraryErrors(store.side, "actions/secrets/public-key") :
                    err' = Errorf("failed to get public key for plaintext secret",
                                  Errorf("failed to get public key", u))
  /\ UNCHANGED <<variant, envVars, store, listing, cliVars, platformVars, run, secretsToMigrate, idx,
                 masterCommitSha, prev, remote>>

\* The platform stores the secret when the call is accepted.
StoredBy(ok) ==
  /\ srcSecrets' = IF ok /\ store.side = "source" THEN srcSecrets \cup {store.name}
                   ELSE srcSecrets
  /\ tgtSecrets' = IF ok /\ store.side = "target"
                   THEN [tgtSecrets EXCEPT ![store.name] = Placeholder]
                   ELSE tgtSecrets

\* CreateRepoSecret.  client.go 83-117: the length check, then the seal and
\* the create-or-update call.  part_006 82-107: no length check; copy() fills
\* the 32-byte array with as much of the key as fits and the call is made.
Client_CreateRepoSecret ==
  /\ pc = "seal"
  /\ IF store.rev = "client.go" /\ store.len # KeyLen
     THEN /\ result' = "err"
          /\ pc' = "returned"
          /\ err' = <<Layer("invalid public key length: expected 32 bytes, got %d",
                            "", "", "")>>
          /\ UNCHANGED <<calls, srcSecrets, tgtSecrets, logs>>
     ELSE \E fault \in BOOLEAN :
            LET ok == CallOK(store.side, fault)
            IN /\ Log(Call("CreateOrUpdateRepoSecret", store.side, store.name,
                           Placeholder, ok, ~ok))
               /\ Emit(IF store.rev = "client.go"
                       THEN CreateRepoSecretLines(store.name, store.len, Placeholder)
                       ELSE <<>>)
               /\ StoredBy(ok)
               /\ result' = IF ok THEN "ok" ELSE "err"
               /\ pc' = "returned"
               /\ IF ok THEN err' = err
                  ELSE \E u \in LibraryErrors(store.side, NameText(store.name)) :
                         err' = Errorf("failed to create secret", u)
  /\ UNCHANGED <<variant, envVars, store, listing, cli, config, credOK, srcPatKey, head, branch, run,
                 secretsToMigrate, idx, masterCommitSha, prev, remote>>

\* client.go 37-44, GetDefaultBranch.
Client_GetDefaultBranch ==
  /\ pc = "request"
  /\ store.op = "GetDefaultBranch"
  /\ \E fault \in BOOLEAN :
       LET ok == CallOK(store.side, fault)
       IN /\ Log(Call("GetRepository", store.side, NoName, NoValue, ok, ~ok))
          /\ result' = IF ok THEN "ok" ELSE "err"
          /\ pc' = "returned"
          /\ IF ok THEN err' = err
             ELSE \E u \in LibraryErrors(store.side, "") :
                    err' = Errorf("failed to get repository", u)
  /\ UNCHANGED <<variant, envVars, store, listing, cliVars, platformVars, run, secretsToMigrate,
                 idx, masterCommitSha, prev, remote>>

\* client.go 234-241, DeleteRef; the platform refuses a ref that is not there.
Client_DeleteRef ==
  /\ pc = "request"
  /\ store.op = "DeleteRef"
  /\ \E fault \in BOOLEAN :
       LET ok == CallOK(store.side, fault) /\ branch # NoBranch
       IN /\ Log(Call("DeleteRef", store.side, HeadsRef(BranchName), NoValue, ok,
                      ~CallOK(store.side, fault)))
          /\ branch' = IF ok THEN NoBranch ELSE branch
          /\ result' = IF ok THEN "ok" ELSE "err"
          /\ pc' = "returned"
          /\ IF ok THEN err' = err
             ELSE \E u \in LibraryErrors(store.side, "heads/" \o BranchName) :
                    err' = Errorf("failed to delete ref", u)
  /\ UNCHANGED <<variant, envVars, store, listing, cliVars, credOK, srcSecrets, srcPatKey,
                 tgtSecrets, head, run, secretsToMigrate, idx, masterCommitSha, prev, remote>>

NextStore ==
  \/ Store_Enter
  \/ Client_PlaintextGetKey
  \/ Client_CreateRepoSecret
  \/ Client_GetDefaultBranch
  \/ Client_DeleteRef

SpecStore == InitStore /\ [][NextStore]_vars

\* ------------------------------------------------ Client.ListRepoSecrets
\* The pagination loop of ListRepoSecrets (client.go 138-160, part_006
\* 109-131) against a repository whose secrets the platform serves in a
\* finite sequence of pages.
PageContents == {<<>>, <<ApiKey>>, <<DbUrl>>, <<ApiKey, DbUrl>>}

PageSeqs == UNION {[1..n -> PageContents] : n \in 1..MaxPages}

\* The page a request with opts.Page = p is answered with: page 1 when the
\* option is unset.
Served(p) == IF p = 0 THEN 1 ELSE p

\* resp.NextPage of the answer to a request for page i of n.
NextPage(i, n) == IF i < n THEN i + 1 ELSE 0

RECURSIVE Concat(_)
Concat(ps) == IF ps = <<>> THEN <<>> ELSE Head(ps) \o Concat(Tail(ps))

InitList ==
  /\ variant = "client"
  /\ credOK \in [Sides -> BOOLEAN]
  /\ srcSecrets = {}
  /\ srcPatKey = "none"
  /\ tgtSecrets = [n \in TargetNames |-> Absent]
  /\ head = 1
  /\ branch = NoBranch
  /\ pc = "idle"
  /\ run = 0
  /\ secretsToMigrate = <<>>
  /\ idx = 1
  /\ masterCommitSha = 0
  /\ calls = <<>>
  /\ result = "none"
  /\ prev = NoRun
  /\ remote = [r \in Runs |-> NoRemote]
  /\ srcEnvs = {}
  /\ tgtEnvs = {}
  /\ environments_to_migrate = <<>>
  /\ envIdx = 1
  /\ store = NoStore
  /\ err = NoError
  /\ \E ps \in PageSeqs : listing = [NoListing EXCEPT !.pages = ps]
  /\ cli = NoCli
  /\ config = DefaultConfig
  /\ logs = <<>>

\* client.go 140-141: opts := &github.ListOptions{PerPage: 100} and the
\* empty secretNames.
List_Enter ==
  /\ pc = "idle"
  /\ run = 0
  /\ run' = 1
  /\ pc' = "list_loop"
  /\ listing' = [listing EXCEPT !.PerPage = 100, !.Page = 0, !.secretNames = <<>>]
  /\ UNCHANGED <<variant, envVars, store, err, cliVars, platformVars, secretsToMigrate, idx,
                 masterCommitSha, calls, result, prev, remote>>

\* A loop that returns after its first page.
Client_ListRepoSecretsFirstPage ==
  /\ pc = "list_loop"
  /\ \E fault \in BOOLEAN :
       LET ok == CallOK("source", fault)
           i == Served(listing.Page)
           names == listing.secretNames \o listing.pages[i]
       IN /\ Log(Call("ListRepoSecrets", "source", NoName, NoValue, ok, ~ok))
          /\ pc' = "returned"
          /\ result' = IF ok THEN "ok" ELSE "err"
          /\ err' = IF ok THEN err
                    ELSE Errorf("failed to list secrets",
                                <<Layer("request failed", OrgOf("source"), RepoOf("source"),
                                        "actions/secrets")>>)
          /\ listing' = [listing EXCEPT !.requested = Append(@, listing.Page),
                                        !.secretNames = IF ok THEN names ELSE @,
                                        !.out = IF ok THEN names ELSE <<>>,
                                        !.returned = TRUE]
  /\ UNCHANGED <<variant, envVars, store, cliVars, platformVars, run, secretsToMigrate, idx,
                 masterCommitSha, prev, remote>>

\* client.go 143-157: one turn of the loop, and the return that follows the
\* break or the failed request.
Client_ListRepoSecrets ==
  /\ pc = "list_loop"
  /\ \E fault \in BOOLEAN :
       LET ok == CallOK("source", fault)
           i == Served(listing.Page)
           next == NextPage(i, Len(listing.pages))
           names == listing.secretNames \o listing.pages[i]
       IN /\ Log(Call("ListRepoSecrets", "source", NoName, NoValue, ok, ~ok))
          /\ IF ~ok
             THEN /\ pc' = "returned"
                  /\ result' = "err"
                  /\ \E u \in LibraryErrors("source", "actions/secrets") :
                       err' = Errorf("failed to list secrets", u)
                  /\ listing' = [listing EXCEPT !.requested = Append(@, listing.Page),
                                                !.out = <<>>,
                                                !.returned = TRUE]
             ELSE IF next = 0
             THEN /\ pc' = "returned"
                  /\ result' = "ok"
                  /\ err' = err
                  /\ listing' = [listing EXCEPT !.requested = Append(@, listing.Page),
                                                !.secretNames = names,
                                                !.out = names,
                                                !.returned = TRUE]
             ELSE /\ pc' = "list_loop"
                  /\ UNCHANGED <<result, err>>
                  /\ listing' = [listing EXCEPT !.requested = Append(@, listing.Page),
                                                !.secretNames = names,
                                                !.Page = next]
  /\ UNCHANGED <<variant, envVars, store, cliVars, platformVars, run, secretsToMigrate, idx,
                 masterCommitSha, prev, remote>>

NextList ==
  \/ List_Enter
  \/ Client_ListRepoSecrets

SpecList == InitList /\ [][NextList]_vars

\* The caller enters the operation and the loop takes its turns.
SpecListFair == SpecList /\ WF_vars(NextList)

\* ------------------------------------------------------- the command line
\* NewRootCommand and runMigration in their three revisions, followed by the
\* Run they start:
\*   "migrator.go"  --load copies GITHUB_TOKEN into both credentials
\*   "part_008"     a set GITHUB_TOKEN replaces both credentials
\*   "part_009"     both PAT flags are marked required, no GITHUB_TOKEN
CliRevs == {"migrator.go", "part_008", "part_009"}

OrgFlags == {"source-org", "source-repo", "target-org", "target-repo"}
PatFlags == {"source-pat", "target-pat"}
FlagNames == OrgFlags \cup PatFlags

EnvToken == "env-token"

\* A command line: the flags that occur on it, those of them given the empty
\* string, --load, --verbose, and the GITHUB_TOKEN of the environment.
CliCalls ==
  {c \in [rev : CliRevs, set : SUBSET FlagNames, empty : SUBSET FlagNames,
          load : BOOLEAN, token : {"", EnvToken}, verbose : BOOLEAN] :
     /\ c.empty \subseteq c.set
     /\ c.load => c.rev = "migrator.go"}

\* The Go variable bound to flag f after parsing: the default "" when the
\* flag does not occur, else its value; a non-empty value is written like
\* the flag itself ("source-org", "target-pat"), as in DefaultConfig.
Flag(c, f) == IF f \in c.set \ c.empty THEN f ELSE ""

\* The flags each NewRootCommand passes to MarkPersistentFlagRequired.
RequiredFlags(rev) == IF rev = "part_009" THEN FlagNames ELSE OrgFlags

\* cobra's check of required flags: every one of them occurs on the
\* command line, whatever its value.
RequiredFlagsSet(c) == RequiredFlags(c.rev) \subseteq c.set

\* runMigration up to the Config literal: the two credentials, or the error
\* it returns instead, and what it printed.
ResolvePATs(c) ==
  CASE c.rev = "migrator.go" ->
         IF c.load
         THEN [err |-> c.token = "", source |-> c.token, target |-> c.token, said |-> <<>>]
         ELSE [err |-> FALSE, source |-> Flag(c, "source-pat"),
               target |-> Flag(c, "target-pat"), said |-> <<>>]
    [] c.rev = "part_008" ->
         LET detected == c.token # ""
             src == IF detected THEN c.token ELSE Flag(c, "source-pat")
             tgt == IF detected THEN c.token ELSE Flag(c, "target-pat")
         IN [err |-> src = "" \/ tgt = "", source |-> src, target |-> tgt,
             said |-> IF detected
                      THEN <<Infof(New(c.verbose),
                                   "GITHUB_TOKEN environment variable detected, using it for both source and target authentication",
                                   <<>>)>>
                      ELSE <<>>]
    [] OTHER ->
         [err |-> FALSE, source |-> Flag(c, "source-pat"),
          target |-> Flag(c, "target-pat"), said |-> <<>>]

\* The Config literal of runMigration.
BuildConfig(c, pats) ==
  [SourceOrg |-> Flag(c, "source-org"), SourceRepo |-> Flag(c, "source-repo"),
   TargetOrg |-> Flag(c, "target-org"), TargetRepo |-> Flag(c, "target-repo"),
   SourcePAT |-> pats.source, TargetPAT |-> pats.target, Verbose |-> c.verbose]

\* What the platform makes of the calls of each client: they can succeed
\* when the client's token is not empty and the coordinates name a repository.
Accepts(c) ==
  [s \in Sides |->
     IF s = "source"
     THEN c.SourcePAT # "" /\ c.SourceOrg # "" /\ c.SourceRepo # ""
     ELSE c.TargetPAT # "" /\ c.TargetOrg # "" /\ c.TargetRepo # ""]

InitCli ==
  /\ variant \in Variants
  /\ credOK = [s \in Sides |-> FALSE]
  /\ srcSecrets = {ApiKey}
  /\ srcPatKey = "none"
  /\ tgtSecrets = [n \in TargetNames |-> Absent]
  /\ head = 1
  /\ branch = NoBranch
  /\ pc = "execute"
  /\ run = 0
  /\ secretsToMigrate = <<>>
  /\ idx = 1
  /\ masterCommitSha = 0
  /\ calls = <<>>
  /\ result = "none"
  /\ prev = NoRun
  /\ remote = [r \in Runs |-> NoRemote]
  /\ srcEnvs = {}
  /\ tgtEnvs = {}
  /\ environments_to_migrate = <<>>
  /\ envIdx = 1
  /\ store = NoStore
  /\ err = NoError
  /\ listing = NoListing
  /\ cli \in CliCalls
  /\ config = NoConfig
  /\ logs = <<>>

\* Command.Execute: the flags are parsed, the required ones are checked, and
\* RunE is called when none is missing.
Cli_Execute ==
  /\ pc = "execute"
  /\ IF RequiredFlagsSet(cli)
     THEN pc' = "runMigration" /\ UNCHANGED result
     ELSE pc' = "exited" /\ result' = "err"
  /\ UNCHANGED <<variant, envVars, clientVars, cliVars, platformVars, run, secretsToMigrate, idx,
                 masterCommitSha, calls, prev, remote>>

\* runMigration: the credentials, the Config, migrator.New with its two
\* clients, and the entry into Run with the lines Run prints first.
Cli_runMigration ==
  /\ pc = "runMigration"
  /\ LET pats == ResolvePATs(cli)
         built == BuildConfig(cli, pats)
     IN IF pats.err
        THEN /\ pc' = "exited"
             /\ result' = "err"
             /\ logs' = logs \o pats.said
             /\ UNCHANGED <<config, credOK, run>>
        ELSE /\ config' = built
             /\ credOK' = Accepts(built)
             /\ run' = run + 1
             /\ pc' = IF variant = "placeholder" THEN "list" ELSE "getkey"
             /\ logs' = logs \o pats.said \o RunBanner(built)
             /\ UNCHANGED result
  /\ UNCHANGED <<variant, envVars, clientVars, cli, srcSecrets, srcPatKey, tgtSecrets, head, branch,
                 secretsToMigrate, idx, masterCommitSha, calls, prev, remote>>

NextCli ==
  \/ Cli_Execute
  \/ Cli_runMigration
  \/ Run_ListRepoSecrets
  \/ Run_GetRepoPublicKey
  \/ Run_CreateMigratorPAT
  \/ Run_GetDefaultBranch
  \/ Run_GetCommitSha
  \/ Run_DeleteBranch
  \/ Run_CreateBranch
  \/ Run_CreatePlaceholder
  \/ Run_CreateFile
  \/ Run_Return

SpecCli == InitCli /\ [][NextCli]_vars

\* ------------------------------------------------------------ claim helpers
Done(r) == remote[r].wpc = "done"

HasCall(cs, op) == \E k \in 1..Len(cs) : cs[k].op = op

Mutating(c) == c.op \in MutatingOps

\* Position of the create-branch call in a run's call log.
CreateIdx(cs) == CHOOSE k \in 1..Len(cs) : cs[k].op = "CreateRef"

\* No call of the log up to position n failed for a reason other than the
\* state of the repository (credential rejected, transport).
NoFaultUpTo(cs, n) == \A k \in 1..n : ~cs[k].fault

NoFault(cs) == NoFaultUpTo(cs, Len(cs))

\* The log of a run that executed the sequence resolve head sha, delete
\* branch, create branch.
EnsuredBranch(cs) ==
  /\ HasCall(cs, "DeleteRef")
  /\ HasCall(cs, "CreateRef")
  /\ NoFaultUpTo(cs, CreateIdx(cs))

\* No remote run has started, so only Run has touched the repository.
NoRemoteActivity == \A q \in Runs : remote[q].wpc \in {"none", "queued"}

\* ------------------------------------------------------------------ claims
\* The formulas about one run of Migrator.Run are stated of the current run:
\* every run is the current one from its start until the next run starts.

\* C1: in the remote run, when the temporary credential SECRETS_MIGRATOR_PAT
\* was present and the run did not delete it (the deletion failed or was
\* never reached), the run ends marked failed: no remote run ends
\* successful with the credential left on the source repository.
C1_CredentialLeftFailsRun ==
  \A r \in Runs :
    (Done(r) /\ remote[r].token /\ ~remote[r].credGone) => remote[r].outcome = "failure"

\* C2: every remote run that ends has attempted both cleanup deletions (the
\* temporary credential and the migration branch), also when an earlier
\* step or forwarding action failed.
C2_CleanupAlwaysAttempted ==
  \A r \in Runs :
    Done(r) => (remote[r].credDelAttempted /\ remote[r].brDelAttempted)

\* C3: Run issues no mutating call (delete/create ref, create-or-update
\* secret, create file) before both credentials have been validated, and a
\* rejected source credential ends the run failed with no mutating call
\* issued.  Run has no validation call of its own, so the formula takes the
\* weakest reading: an earlier successful call made with a credential counts
\* as that credential's validation.
C3_NoMutationBeforeValidation ==
  /\ \A k \in 1..Len(calls) :
       Mutating(calls[k]) =>
         \A s \in Sides : \E j \in 1..(k - 1) : calls[j].side = s /\ calls[j].ok
  /\ (result # "none" /\ ~credOK["source"]) =>
       (result = "err" /\ \A k \in 1..Len(calls) : ~Mutating(calls[k]))

\* C4: a run on a source repository whose secrets are all reserved names
\* (none is left to migrate), in which no call fails, returns success and
\* has issued no mutating call.
C4_EmptyListNoMutation ==
  (/\ result # "none"
   /\ {n \in srcSecrets : ~IsReserved(n)} = {}
   /\ NoFault(calls))
  => (result = "ok" /\ \A k \in 1..Len(calls) : ~Mutating(calls[k]))

\* C5: once the source secrets are listed, the names selected for migration
\* are exactly the listed names that neither begin with SECRETS_MIGRATOR_
\* nor are the built-in token name.
C5_SelectionExcludesReserved ==
  (/\ Len(calls) >= 1
   /\ calls[1].op = "ListRepoSecrets"
   /\ calls[1].ok)
  => Range(secretsToMigrate) = {n \in srcSecrets : ~IsReserved(n)}

\* C6 (as stated): every secret write the engine issues, on either
\* repository, is under a reserved name.
C6_OnlyReservedNamesWritten ==
  \A k \in 1..Len(calls) :
    calls[k].op = "CreateOrUpdateRepoSecret" => IsReserved(calls[k].name)

\* C6 (amended): every secret write the engine issues on the source
\* repository is under a reserved name; on the target repository it writes
\* only names of source secrets other than github_token and
\* SECRETS_MIGRATOR_PAT, each with the placeholder value.
C6_SourceWritesReserved ==
  \A k \in 1..Len(calls) :
    calls[k].op = "CreateOrUpdateRepoSecret" =>
      IF calls[k].side = "source"
      THEN IsReserved(calls[k].name)
      ELSE /\ calls[k].name \in srcSecrets \ {GithubToken, MigratorPAT}
           /\ calls[k].value = "REPLACE_ME_LATER"

C6_Witness ==
  \E k \in 1..Len(calls) :
    /\ calls[k].op = "CreateOrUpdateRepoSecret"
    /\ calls[k].side = "target"
    /\ calls[k].ok
    /\ tgtSecrets[calls[k].name] = "REPLACE_ME_LATER"

\* C7: in a run that commits the workflow definition, SECRETS_MIGRATOR_PAT
\* was stored on the source repository by that run before its create-branch
\* call and before the commit.
C7_CredentialStoredBeforeBranch ==
  \A f \in 1..Len(calls) :
    (calls[f].op = "CreateFile" /\ calls[f].ok) =>
      \E s \in 1..(f - 1) :
        /\ calls[s].op = "CreateOrUpdateRepoSecret"
        /\ calls[s].side = "source"
        /\ calls[s].name = MigratorPAT
        /\ calls[s].ok
        /\ \A b \in 1..Len(calls) : calls[b].op = "CreateRef" => s < b

\* C8: when the sequence resolve head sha / delete branch / create branch
\* has been executed by two consecutive runs with no faulted call and
\* nothing else touching the repository, both create-branch calls succeeded
\* and one migration branch exists, at the sha the second run resolved,
\* which is the default branch's head.
C8_EnsureBranchIdempotent ==
  (/\ EnsuredBranch(prev.calls)
   /\ EnsuredBranch(calls)
   /\ NoRemoteActivity)
  => /\ prev.calls[CreateIdx(prev.calls)].ok
     /\ calls[CreateIdx(calls)].ok
     /\ branch # NoBranch
     /\ branch.base = masterCommitSha
     /\ (pc # "idle" => branch.base = head)

\* The second execution found the branch of the first, deleted it and
\* created it again at a head that had moved in between.
C8_Witness ==
  /\ EnsuredBranch(prev.calls)
  /\ EnsuredBranch(calls)
  /\ NoRemoteActivity
  /\ calls[CreateIdx(calls) - 1].op = "DeleteRef"
  /\ calls[CreateIdx(calls) - 1].ok
  /\ branch.base = 2
  /\ head = 2

\* C9: a run that follows a failed run and in which no call is faulted ends
\* in success, and if it created the migration branch that branch exists at
\* the default branch's head when the run returns.
C9_RerunConverges ==
  (/\ pc \in {"completed", "failed"}
   /\ prev.result = "err"
   /\ NoFault(calls)
   /\ \A q \in 1..(run - 1) : remote[q].wpc = "none")
  => /\ pc = "completed"
     /\ (HasCall(calls, "CreateRef") /\ remote[run].wpc = "queued")
          => (branch # NoBranch /\ branch.base = head)

\* C10: a failed call other than the best-effort branch deletion is the
\* last call of its run, and that run ends with an error.
C10_ErrorAbortsRun ==
  \A k \in 1..Len(calls) :
    (~calls[k].ok /\ calls[k].op # "DeleteRef") =>
      /\ k = Len(calls)
      /\ IF result = "none" THEN pc = "failed" ELSE result = "err"

C10_Witness ==
  /\ result = "err"
  /\ Len(calls) >= 3
  /\ ~calls[Len(calls)].ok
  /\ calls[Len(calls)].op = "CreateFile"

\* C11: when Run fails, everything the earlier calls of that run created
\* (the migration branch, the temporary credential on the source, secrets
\* written to the target) still exists when Run returns, as long as no
\* remote run has touched the repositories: Run deletes nothing on its
\* failure paths, and its log holds no delete call after the create-branch
\* call.
C11_NoRollbackOnFailure ==
  ((pc = "failed" \/ result = "err") /\ NoRemoteActivity) =>
    \A k \in 1..Len(calls) :
      /\ (calls[k].op = "CreateRef" /\ calls[k].ok) =>
           /\ branch # NoBranch
           /\ branch.base = masterCommitSha
           /\ \A j \in (k + 1)..Len(calls) : calls[j].op # "DeleteRef"
      /\ (calls[k].op = "CreateOrUpdateRepoSecret" /\ calls[k].ok) =>
           IF calls[k].side = "source"
           THEN calls[k].name \in srcSecrets
           ELSE tgtSecrets[calls[k].name] = calls[k].value

\* A run that created the branch and wrote a secret, then failed and returned.
C11_Witness ==
  /\ result = "err"
  /\ NoRemoteActivity
  /\ \E k \in 1..Len(calls) : calls[k].op = "CreateRef" /\ calls[k].ok
  /\ \E k \in 1..Len(calls) : calls[k].op = "CreateOrUpdateRepoSecret" /\ calls[k].ok
  /\ ~calls[Len(calls)].ok

\* C12: in the remote run, a failed write of a secret to the target ends
\* the run at once, marked failed: no remote run goes on, or ends
\* successful, after one of its secret writes failed.
C12_FailedWriteFailsRun ==
  \A r \in Runs :
    remote[r].fwdFailed => (remote[r].wpc = "done" /\ remote[r].outcome = "failure")

\* The forwarding loop of remote run r has gone through the whole secrets
\* context with no failed write, and no later Run has been started.
LoopOver(r) ==
  /\ run = r
  /\ remote[r].wpc \in {"delcred", "delbranch"}
  /\ remote[r].i > Len(remote[r].ctx)
  /\ ~remote[r].fwdFailed

ForwardingSteps(d) ==
  {k \in 1..Len(d.steps) :
     \E c \in 1..Len(d.steps[k].script) :
       d.steps[k].script[c] = "forward each secret of the context"}

\* Run committed the workflow file and nothing has touched the branch since.
Committed ==
  /\ HasCall(calls, "CreateFile")
  /\ calls[Len(calls)].ok
  /\ NoRemoteActivity

\* C14: the definition Run commits has the push trigger on the migration
\* branch and the cleanup commands, it references every secret name Run
\* selected for migration, and when no name was selected it has no
\* secret-forwarding step.
C14_DefinitionMatchesNames ==
  Committed =>
    /\ branch.file.trigger = BranchName
    /\ \E k \in 1..Len(branch.file.steps) :
         \E c \in 1..Len(branch.file.steps[k].script) :
           branch.file.steps[k].script[c] = "delete SECRETS_MIGRATOR_PAT"
    /\ Range(secretsToMigrate) \subseteq branch.file.names
    /\ (secretsToMigrate = <<>> => ForwardingSteps(branch.file) = {})

\* C16: a create_environment call answered with the already-exists
\* conflict returns success to run(), and a run with no credential or
\* transport fault ends Completed, also when the target already has
\* environments of the source.
C16_ConflictIsSuccess ==
  /\ \A k \in 1..Len(calls) :
       (calls[k].op = "CreateEnvironment" /\ calls[k].value \in {Conflict409, AlreadyExists})
         => calls[k].ok
  /\ (pc \in {"completed", "failed"} /\ NoFault(calls)) => pc = "completed"

C16_Witness ==
  /\ pc = "completed"
  /\ \E k \in 1..Len(calls) :
       calls[k].op = "CreateEnvironment" /\ calls[k].value = Conflict409

C18_ListNeverFails ==
  (/\ Len(calls) >= 1
   /\ calls[1].op = "ListEnvironments"
   /\ ~calls[1].ok)
  => /\ environments_to_migrate = <<>>
     /\ \A k \in 1..Len(calls) : calls[k].op # "CreateEnvironment"
     /\ (Len(calls) = 1 => pc = "storecred")

\* The list call failed on a source that has environments and the run still
\* ended Completed.
C18_Witness ==
  /\ pc = "completed"
  /\ calls[1].op = "ListEnvironments"
  /\ ~calls[1].ok
  /\ srcEnvs # {}

\* C19: a store operation given a public key that is not 32 bytes long (as
\* its argument, or as the key the platform returned to
\* CreateRepoSecretPlaintext) returns an error, has issued no platform call
\* at all, and has created or updated no secret.
C19_BadKeyNoCall ==
  (/\ pc = "returned"
   /\ store.len # KeyLen
   /\ (store.op = "CreateRepoSecretPlaintext" => (Len(calls) >= 1 /\ calls[1].ok)))
  =>
    /\ result = "err"
    /\ calls = <<>>
    /\ srcSecrets = {}
    /\ \A n \in TargetNames : tgtSecrets[n] = Absent

\* The credentials and secret values the invocation holds in plaintext.
SecretValues ==
  {config.SourcePAT, config.TargetPAT, cli.token,
   Flag(cli, "source-pat"), Flag(cli, "target-pat")} \ {""}

\* C21: no call on the Logger, printed or not, carries the plaintext of the
\* source credential, of the target credential, of GITHUB_TOKEN or of a
\* value being sealed, in its format or in any argument; a secret value
\* shows in the log through its length and its ciphertext only.
C21_NoPlaintextInLogs ==
  \A k \in 1..Len(logs) :
    /\ logs[k].format \notin SecretValues
    /\ \A a \in 1..Len(logs[k].args) : logs[k].args[a].text \notin SecretValues

\* A verbose run that sealed the target credential, taken from GITHUB_TOKEN,
\* and printed the length of the value.
C21_Witness ==
  /\ config.TargetPAT = EnvToken
  /\ \E k \in 1..Len(logs) :
       /\ logs[k].out
       /\ logs[k].level = "DEBUG"
       /\ Len(logs[k].args) = 4
       /\ logs[k].args[1].text = "SECRETS_MIGRATOR_PAT"
       /\ logs[k].args[4] = ArgD(Len(EnvToken))

\* C22: a successful commit of the workflow definition is the last
\* platform call of its run: the run is then Completed, the last thing it
\* printed is the success line with the source repository's coordinates, and
\* no call follows the commit.
C22_CommitIsLastCall ==
  \A k \in 1..Len(calls) :
    (calls[k].op = "CreateFile" /\ calls[k].ok) =>
      /\ k = Len(calls)
      /\ IF result = "none" THEN pc = "completed" ELSE result = "ok"
      /\ logs[Len(logs)] =
           Successf(log, "Secrets migration in progress. Check on status at https://github.com/%s/%s/actions",
                    <<ArgS(config.SourceOrg), ArgS(config.SourceRepo)>>)

C22_Witness ==
  /\ result = "ok"
  /\ Len(calls) >= 5
  /\ calls[Len(calls)].op = "CreateFile"
  /\ calls[Len(calls)].ok
  /\ logs[Len(logs)].level = "SUCCESS"

\* The credential runMigration put into the Config for a PAT flag.
Used(f) == IF f = "source-pat" THEN config.SourcePAT ELSE config.TargetPAT

\* C23: once runMigration has built the Config, a credential given on the
\* command line is the one in the Config, and a credential of the Config
\* that is the GITHUB_TOKEN of the environment was not given on the command
\* line.
C23_TokenIsFallback ==
  run >= 1 =>
    \A f \in PatFlags :
      /\ Flag(cli, f) # "" => Used(f) = Flag(cli, f)
      /\ Used(f) = EnvToken => Flag(cli, f) = ""

\* C24: Run is never started with an empty source or target credential:
\* with a credential missing, runMigration returns an error and no platform
\* call is made.
C24_NoRunWithoutCredential ==
  /\ run >= 1 => (config.SourcePAT # "" /\ config.TargetPAT # "")
  /\ (pc \in {"exited", "idle"} /\ \E f \in PatFlags : Flag(cli, f) = "" /\ cli.token = "")
       => (result = "err" /\ calls = <<>>)

\* C25: with an empty source org, source repo, target org or target repo,
\* no Run is started and no platform call is made.
C25_EmptyCoordinateNoRun ==
  (\E f \in OrgFlags : Flag(cli, f) = "") => (run = 0 /\ calls = <<>>)

\* C26: a Debug or Debugf call prints exactly when the logger was created
\* with verbose on; an Info, Infof, Success or Successf call always prints;
\* and the invocation goes on after every such call: a Run that has printed
\* returns to runMigration with nil or an error.
C26_DebugOnlyWhenVerbose ==
  /\ \A k \in 1..Len(logs) :
       /\ logs[k].level = "DEBUG" => (logs[k].out <=> cli.verbose)
       /\ logs[k].level \in {"INFO", "SUCCESS"} => logs[k].out
  /\ (pc = "idle" /\ logs # <<>>) => result \in {"ok", "err"}

\* A run without --verbose that returned nil: its Debug calls printed
\* nothing, its banner and success line were printed.
C26_Witness ==
  /\ ~cli.verbose
  /\ result = "ok"
  /\ \E k \in 1..Len(logs) : logs[k].level = "DEBUG" /\ Len(logs[k].args) = 0 /\ ~logs[k].out
  /\ \E k \in 1..Len(logs) : logs[k].level = "DEBUG" /\ Len(logs[k].args) > 0 /\ ~logs[k].out
  /\ logs[1].level = "INFO" /\ logs[1].out
  /\ logs[Len(logs)].level = "SUCCESS" /\ logs[Len(logs)].out

\* C27: a stale-branch deletion, failed or not, whatever the failure, is
\* followed by the create-branch call: right after it Run is at the
\* create-branch step, and the next call of the log is the create call.
C27_DeleteFailureNeverAborts ==
  \A k \in 1..Len(calls) :
    calls[k].op = "DeleteRef" =>
      IF k = Len(calls) THEN pc = "createbranch" ELSE calls[k + 1].op = "CreateRef"

\* The deletion failed on the transport and the creation went through; the
\* run before had found no branch to delete.
C27_Witness ==
  /\ \E k \in 1..(Len(calls) - 1) :
       /\ calls[k].op = "DeleteRef"
       /\ ~calls[k].ok
       /\ calls[k].fault
       /\ calls[k + 1].op = "CreateRef"
       /\ calls[k + 1].ok
  /\ \E k \in 1..Len(prev.calls) :
       prev.calls[k].op = "DeleteRef" /\ ~prev.calls[k].ok /\ ~prev.calls[k].fault

\* C28: a failed create-branch call is the last call of its run: the run
\* ends with an error, writes no secret and commits no definition after it,
\* and triggers no remote run.
C28_CreateBranchFailureFatal ==
  \A k \in 1..Len(calls) :
    (calls[k].op = "CreateRef" /\ ~calls[k].ok) =>
      /\ k = Len(calls)
      /\ IF result = "none" THEN pc = "failed" ELSE result = "err"
      /\ remote[run] = NoRemote

\* The platform refused the creation because the branch of an earlier run
\* was still there.
C28_Witness ==
  /\ result = "err"
  /\ calls[Len(calls)].op = "CreateRef"
  /\ ~calls[Len(calls)].ok
  /\ ~calls[Len(calls)].fault
  /\ branch # NoBranch

\* C29: a delete-branch or create-branch call comes after a successful
\* resolution of the default branch and of its head sha in the same run; a
\* failed resolution is the last call of a run that deleted and created no
\* branch; and the branch a run created points at the sha that run resolved.
C29_ShaResolvedFirst ==
  /\ \A k \in 1..Len(calls) :
       calls[k].op \in {"DeleteRef", "CreateRef"} =>
         \E i, j \in 1..(k - 1) :
           /\ i < j
           /\ calls[i].op = "GetRepository" /\ calls[i].ok
           /\ calls[j].op = "GetRef" /\ calls[j].ok
  /\ \A k \in 1..Len(calls) :
       (calls[k].op \in {"GetRepository", "GetRef"} /\ ~calls[k].ok) =>
         /\ k = Len(calls)
         /\ IF result = "none" THEN pc = "failed" ELSE result = "err"
         /\ ~HasCall(calls, "DeleteRef")
         /\ ~HasCall(calls, "CreateRef")
  /\ \A k \in 1..Len(calls) :
       (calls[k].op = "CreateRef" /\ calls[k].ok) =>
         /\ masterCommitSha \in 1..head
         /\ branch # NoBranch => branch.base = masterCommitSha

\* The second run resolved the head a push had moved and created the
\* branch there.
C29_Witness ==
  /\ prev.result # "none"
  /\ head = 2
  /\ masterCommitSha = 2
  /\ HasCall(calls, "CreateRef")
  /\ calls[CreateIdx(calls)].ok
  /\ branch # NoBranch
  /\ branch.base = 2

\* C30: every commit call of a run comes after a successful create-branch
\* call of the same run.  (That the calls are issued one at a time is how
\* Run is built: one position, one call log.)
C30_CommitAfterBranch ==
  \A f \in 1..Len(calls) :
    calls[f].op = "CreateFile" =>
      \E b \in 1..(f - 1) : calls[b].op = "CreateRef" /\ calls[b].ok

\* A commit that came after the branch and the placeholder writes.
C30_Witness ==
  \E f \in 1..Len(calls) :
    /\ calls[f].op = "CreateFile"
    /\ calls[f].ok
    /\ calls[f - 1].op = "CreateOrUpdateRepoSecret"
    /\ \E b \in 1..(f - 2) : calls[b].op = "CreateRef" /\ calls[b].ok

\* C33: a temporary credential stored on the source repository is sealed
\* with the key of the source repository (the key a store operation uses is
\* the key of the repository it writes to).
C33_SealedForOwnRepository ==
  MigratorPAT \in srcSecrets => srcPatKey = "source"

\* C34: in a remote run, the deletion of the temporary credential is
\* attempted whenever the deletion of the migration branch was attempted,
\* whatever the branch deletion returned.
C34_CredentialDeletionAfterBranchFailure ==
  \A r \in Runs :
    (Done(r) /\ remote[r].brDelAttempted) => remote[r].credDelAttempted

\* The non-reserved secrets of a set of stored names.
UserSecrets(stored) == {n \in stored : ~IsReserved(n)}

\* The calls a step of Run appended to its log.
NewCalls == SubSeq(calls', Len(calls) + 1, Len(calls'))

\* C37: no step of Run deletes a secret, and no step of Run creates or
\* updates a secret of the source repository under a non-reserved name: the
\* user secrets of the source repository are the same after the step as
\* before it, whether the step succeeded or failed.
C37_RunKeepsSourceSecrets ==
  [][(pc # "idle" /\ Len(calls') > Len(calls)) =>
       /\ UserSecrets(srcSecrets') = UserSecrets(srcSecrets)
       /\ \A k \in 1..Len(NewCalls) :
            /\ NewCalls[k].op # "DeleteSecret"
            /\ (NewCalls[k].op = "CreateOrUpdateRepoSecret" /\ NewCalls[k].side = "source")
                 => IsReserved(NewCalls[k].name)]_vars

\* A run has returned after a store call that succeeded while the source
\* repository held user secrets.
C37_Witness ==
  /\ result # "none"
  /\ UserSecrets(srcSecrets) # {}
  /\ \E k \in 1..Len(calls) :
       calls[k].op = "CreateOrUpdateRepoSecret" /\ calls[k].ok

\* The store calls of a call log that succeeded on the target, in order.
Written(cs) ==
  SelectSeq(cs, LAMBDA c : c.op = "CreateOrUpdateRepoSecret" /\ c.side = "target" /\ c.ok)

\* The run failed in the placeholder loop: its last call is a call of
\* CreateRepoSecretPlaintext that returned an error.
PlaceholderFailed ==
  /\ pc = "failed"
  /\ Len(calls) > 0
  /\ calls[Len(calls)].side = "target"
  /\ ~calls[Len(calls)].ok

\* C38: in the placeholder revision, a run that succeeded has written to the
\* target exactly the names of the filtered list, in order, each with the
\* placeholder value and each before the commit; a run that failed writing
\* the k-th placeholder has written exactly the first k-1 names and has
\* committed nothing.
C38_PlaceholdersMatchSelection ==
  variant = "placeholder" =>
    /\ pc = "completed" =>
         /\ [k \in 1..Len(Written(calls)) |-> Written(calls)[k].name] = secretsToMigrate
         /\ \A k \in 1..Len(calls) :
              (calls[k].op = "CreateOrUpdateRepoSecret" /\ calls[k].side = "target") =>
                /\ calls[k].value = Placeholder
                /\ \A j \in 1..k : calls[j].op # "CreateFile"
    /\ PlaceholderFailed =>
         /\ [k \in 1..Len(Written(calls)) |-> Written(calls)[k].name]
              = SubSeq(secretsToMigrate, 1, idx - 1)
         /\ ~HasCall(calls, "CreateFile")

\* A run committed after writing two placeholders.
C38_Witness ==
  /\ variant = "placeholder"
  /\ pc = "completed"
  /\ Len(secretsToMigrate) = 2
  /\ HasCall(calls, "CreateFile")

\* A run failed writing its second placeholder.
C38_WitnessFailed ==
  /\ variant = "placeholder"
  /\ PlaceholderFailed
  /\ idx = 2

\* The current run stored the temporary credential on the source.
StoredCredential ==
  \E k \in 1..Len(calls) :
    /\ calls[k].op = "CreateOrUpdateRepoSecret"
    /\ calls[k].side = "source"
    /\ calls[k].name = MigratorPAT
    /\ calls[k].ok

\* C39: a Run that follows an earlier Run whose remote run was triggered
\* loses neither its branch nor its credential to that remote run's cleanup:
\* its commit fails only by a credential or transport fault, and the remote
\* run its commit triggers finds the credential it stored.
C39_OverlapKeepsBranchAndCredential ==
  (run > 1 /\ remote[run - 1].wpc # "none") =>
    /\ \A k \in 1..Len(calls) :
         (calls[k].op = "CreateFile" /\ ~calls[k].ok) => calls[k].fault
    /\ (StoredCredential /\ remote[run].wpc \notin {"none", "queued"}) => remote[run].token

\* github.ref in a run of the definition: the ref whose push triggered it,
\* which the `on: push: branches:` filter makes the trigger branch.
GithubRef(file) == RefsHeadsRef(file.trigger)

\* The ref the cleanup of a committed definition deletes, as "refs/heads/x".
CleanupRef(file) ==
  IF file.cleanupRef = GithubRefExpr THEN GithubRef(file) ELSE file.cleanupRef

\* C35: every ref call of Run that deletes, creates or commits names the
\* branch migrate-secrets, and a committed definition is triggered by pushes
\* to migrate-secrets and deletes migrate-secrets in its cleanup.
C35_OneMigrationBranch ==
  /\ \A k \in 1..Len(calls) :
       /\ calls[k].op = "DeleteRef" => calls[k].name = <<"heads/", "migrate-secrets">>
       /\ calls[k].op = "CreateRef" => calls[k].name = <<"refs/heads/", "migrate-secrets">>
       /\ calls[k].op = "CreateFile" => calls[k].name = <<"migrate-secrets">>
       /\ calls[k].op \in {"UpdateRef", "CreateCommit"} => FALSE
  /\ branch.hasFile =>
       /\ branch.file.trigger = "migrate-secrets"
       /\ CleanupRef(branch.file) = <<"refs/heads/", "migrate-secrets">>

\* A run deleted the stale branch, created it again and committed to it.
C35_Witness ==
  /\ pc = "completed"
  /\ branch.hasFile
  /\ \E i, j, k \in 1..Len(calls) :
       /\ i < j /\ j < k
       /\ calls[i].op = "DeleteRef" /\ calls[i].ok
       /\ calls[j].op = "CreateRef" /\ calls[j].ok
       /\ calls[k].op = "CreateFile" /\ calls[k].ok

\* The sealed revision committed a definition whose cleanup names github.ref.
C35_WitnessSealed ==
  /\ variant = "sealed"
  /\ branch.hasFile
  /\ branch.file.cleanupRef = GithubRefExpr

\* The pieces of text of a definition.
Texts(file) ==
  {file.trigger, file.targetOrg, file.targetRepo, file.tokenEnv.name, file.tokenEnv.value}
    \cup Range(file.cleanupRef)
    \cup UNION {{file.steps[k].name} \cup Range(file.steps[k].script) :
                  k \in 1..Len(file.steps)}

\* The credential values of an invocation.
Credentials == {config.SourcePAT, config.TargetPAT, cli.token} \ {""}

C36_WitnessToken ==
  /\ branch.hasFile
  /\ config.SourcePAT = EnvToken
  /\ config.TargetPAT = EnvToken

\* C31: an error a client operation returns is a wrapper around an
\* underlying failure, and names the organisation, the repository and the
\* resource the operation was called on.
C31_ErrorsCarryContext ==
  (pc = "returned" /\ result = "err") =>
    /\ Len(err) >= 2
    /\ \E k \in 1..Len(err) :
         /\ err[k].org = OrgOf(store.side)
         /\ err[k].repo = RepoOf(store.side)
    /\ (store.op # "GetDefaultBranch" => \E k \in 1..Len(err) : err[k].resource # "")

\* C31, for the layers the client itself adds: every layer but the innermost
\* names the organisation and the repository.
C31_WrapperNamesRepository ==
  (pc = "returned" /\ result = "err" /\ Len(err) >= 2) =>
    \A k \in 1..(Len(err) - 1) :
      err[k].org = OrgOf(store.side) /\ err[k].repo = RepoOf(store.side)

\* The values of opts.Page of the requests that fetch pages 1..n in order.
PageRequests(n) == [k \in 1..n |-> IF k = 1 THEN 0 ELSE k]

\* What ListRepoSecrets returned is right for the pages it was served.
ListedAll ==
  /\ listing.returned
  /\ result = "ok" =>
       /\ listing.out = Concat(listing.pages)
       /\ listing.requested = PageRequests(Len(listing.pages))
       /\ err = NoError
  /\ result = "err" =>
       /\ listing.out = <<>>
       /\ err # NoError
       /\ \E n \in 1..Len(listing.pages) : listing.requested = PageRequests(n)
  /\ result \in {"ok", "err"}

\* C32: for every finite sequence of pages ListRepoSecrets returns; when no
\* request failed it has requested page 1 and then each NextPage in turn and
\* returns the names of all pages in page order, and when a request failed
\* it returns an error and no names.
C32_ListTerminatesWithAllNames ==
  /\ <>(pc = "returned")
  /\ [](pc = "returned" => ListedAll)

\* Three pages were served and their names returned in order.
C32_Witness ==
  /\ pc = "returned"
  /\ result = "ok"
  /\ Len(listing.pages) = 3
  /\ listing.pages[1] # <<>>
  /\ listing.pages[3] # <<>>
  /\ listing.out = Concat(listing.pages)

\* The request for the second page failed.
C32_WitnessFailed ==
  /\ pc = "returned"
  /\ result = "err"
  /\ Len(listing.requested) = 2
  /\ listing.secretNames # <<>>

TypeOK ==
  /\ variant \in Variants
  /\ pc \in {"idle", "list", "getkey", "storepat", "defbranch", "getsha", "delbranch",
             "createbranch", "placeholders", "createfile", "completed", "failed"}
  /\ run \in 0..MaxRuns
====
